---- MODULE Spec2Model ----
(***************************************************************************)
(* A model of ooni/backend_client.py (OONIBClient._request, queryBackend,  *)
(* download, CollectorClient.downloadInput) and ooni/deck.py (InputFile,   *)
(* Deck.setup, Deck.lookupCollector, Deck.fetchAndVerifyNetTestInput).     *)
(*                                                                         *)
(* Four specifications share the module:                                   *)
(*   SpecReq    one invocation of queryBackend / download over _request    *)
(*   SpecCache  the cache predicates of InputFile over an on-disk cache    *)
(*   SpecDeck   Deck.setup: input fetching, then the collector lookup      *)
(*   SpecLookup Deck.lookupCollector called on its own                     *)
(* A specification leaves the variables of the others at their initial     *)
(* values.  Code the repository keeps outside these two files (BodyReceiver *)
(* and Downloader of ooni.utils.net, ooni.errors.get_error) is modelled    *)
(* from its description: a receiver resolves `finished` once, when the     *)
(* body is complete.                                                       *)
(***************************************************************************)
EXTENDS Integers, Sequences, FiniteSets, TLC

(* ----------------------------- bounds ---------------------------------- *)

\* largest value of the `retries` argument explored
MaxRetries == 3

\* longest deck Deck.setup is run on
MaxTests == 2

\* longest deck Deck.lookupCollector is run on directly
MaxLookupTests == 2

\* longest list of assignments in a bouncer's answer
MaxAssignments == 2

(* ------------------------- values and tables --------------------------- *)

\* Python's None
None == "None"

\* the default of the `retries` parameter of _request and queryBackend
DefaultRetries == 3

\* failures agent.request can end with (twisted.internet.error)
TransportErrors == {"ConnectionRefusedError", "TimeoutError"}

\* exceptions raised inside callback, while the response is handed to the
\* receiver: genReceiver cannot build the receiver (Downloader cannot open
\* download_path) or response.deliverBody raises
ReceiverErrors == {"IOError"}

\* HTTP status codes a backend answers with
Statuses == {200, 404, 500}

\* response bodies a backend can send
Bodies ==
    { "",
      "{}",
      "{\"error\":\"invalid-request\"}",
      "{\"net-tests\":[]}",
      "not json",
      "5",
      "null",
      "[]",
      "[\"error\"]",
      "\"ok\"",
      "\"no error\"" }

\* a decoded JSON value: its Python type, the keys of a dict, the items of a
\* list, the text of a string, and the value stored under the key 'error'
JsonValue(kind, keys, items, text, errorValue) ==
    [kind |-> kind, keys |-> keys, items |-> items, text |-> text,
     errorValue |-> errorValue]

\* json.loads raised ValueError
Invalid == JsonValue("ValueError", {}, {}, "", None)

\* Python's None as a value (also what json.loads gives for null)
NoneValue == JsonValue("NoneType", {}, {}, "", None)

\* json.loads, on the strings the model sends
json_loads(s) ==
    CASE s = "{}" -> JsonValue("dict", {}, {}, "", None)
      [] s = "{\"error\":\"invalid-request\"}" ->
             JsonValue("dict", {"error"}, {}, "", "invalid-request")
      [] s = "{\"net-tests\":[]}" -> JsonValue("dict", {"net-tests"}, {}, "", None)
      [] s = "5" -> JsonValue("int", {}, {}, "5", None)
      [] s = "null" -> NoneValue
      [] s = "[]" -> JsonValue("list", {}, {}, "", None)
      [] s = "[\"error\"]" -> JsonValue("list", {}, {"error"}, "", None)
      [] s = "\"ok\"" -> JsonValue("unicode", {}, {}, "ok", None)
      [] s = "\"no error\"" -> JsonValue("unicode", {}, {}, "no error", None)
      [] s = "{\"name\":\"n\",\"id\":\"i\",\"version\":\"1\",\"author\":\"a\",\"date\":\"d\",\"description\":\"t\"}" ->
             JsonValue("dict",
                       {"name", "id", "version", "author", "date", "description"},
                       {}, "", None)
      [] s = "{\"name\":\"n\"}" -> JsonValue("dict", {"name"}, {}, "", None)
      [] s = "{\"error\":404}" -> JsonValue("dict", {"error"}, {}, "", "404")
      [] s = "{\"error\":500}" -> JsonValue("dict", {"error"}, {}, "", "500")
      [] s = "{\"h1\":{\"address\":\"10.0.0.1\",\"collector\":\"httpo://c1.onion\"}}" ->
             JsonValue("dict", {"h1"}, {}, "", None)
      [] OTHER -> Invalid

\* the texts in which Python's  'error' in text  finds the substring
TextsWithError == {"no error"}

\* file contents the model stores in the cache
Contents == {"", "a", "b"}

\* hashlib.sha256(content).hexdigest(), on the contents the model stores
sha256(content) ==
    CASE content = "" ->
             "e3b0c44298fc1c149afbf4c8996fb92427ae41e4649b934ca495991b7852b855"
      [] content = "a" ->
             "ca978112ca1bbdcafac231b39a23dc4da786eff8147c4e72b9807785afee48bb"
      [] content = "b" ->
             "3e23e8160039594a33894f6564e1b1348bbd7a0088d42c4acb73eeaed59c009d"

\* the ids (content hashes) of the resources the model caches
Ha == "ca978112ca1bbdcafac231b39a23dc4da786eff8147c4e72b9807785afee48bb"
Hb == "3e23e8160039594a33894f6564e1b1348bbd7a0088d42c4acb73eeaed59c009d"
Hashes == {Ha, Hb}

\* texts a descriptor file can hold: what InputFile.save writes, a dict that
\* lacks descriptor fields, a JSON value that is no dict, and text that is
\* not JSON
SavedDescriptor ==
    "{\"name\":\"n\",\"id\":\"i\",\"version\":\"1\",\"author\":\"a\",\"date\":\"d\",\"description\":\"t\"}"
DescriptorTexts == {SavedDescriptor, "{\"name\":\"n\"}", "[]", "not json"}

\* the outcome of a call: a returned value or a raised exception
Returned(v) == [ok |-> TRUE, value |-> v, exc |-> None, code |-> None]
Raised(exc, code) == [ok |-> FALSE, value |-> NoneValue, exc |-> exc, code |-> code]

\* a Deferred that has not fired
Unresolved == Raised("Unresolved", None)

\* ooni.errors.get_error: None maps to the malformed-response error, any other
\* key to the backend error reported under that key
get_error(error_key) ==
    IF error_key = None
      THEN Raised("MalformedResponse", None)
      ELSE Raised("BackendReportedError", error_key)

\* Python's  'error' in response  : a key test on a dict, an item test on a
\* list, a substring test on a string, TypeError on anything else
error_in(response) ==
    CASE response.kind = "dict" ->
             IF "error" \in response.keys THEN "True" ELSE "False"
      [] response.kind = "list" ->
             IF "error" \in response.items THEN "True" ELSE "False"
      [] response.kind = "unicode" ->
             IF response.text \in TextsWithError THEN "True" ELSE "False"
      [] OTHER -> "TypeError"

\* Python's  response['error']  : the stored value of a dict, TypeError on a
\* list or a string (reached only after  'error' in response  was true)
error_of(response) ==
    IF response.kind = "dict" THEN response.errorValue ELSE "TypeError"

\* queryBackend.genReceiver.process_response
process_response(s) ==
    IF s = ""
      THEN Returned(NoneValue)
      ELSE LET response == json_loads(s) IN
           IF response.kind = "ValueError"
             THEN get_error(None)
             ELSE CASE error_in(response) = "TypeError" -> Raised("TypeError", None)
                    [] error_in(response) = "True" ->
                           IF error_of(response) = "TypeError"
                             THEN Raised("TypeError", None)
                             ELSE get_error(error_of(response))
                    [] OTHER -> Returned(response)

(* ------------------------------ state ---------------------------------- *)

VARIABLES
    \* OONIBClient._request
    rpc,            \* "idle", "requesting", "receiving", "done"
    op,             \* "query" or "download": which genReceiver is in use
    retries,        \* the retries argument
    attempts,       \* the attempts argument of the running perform_request
    pending,        \* attempt numbers whose agent.request has not fired yet
    requestsMade,   \* number of agent.request calls so far
    response,       \* the response handed to callback, or NoResponse
    data,           \* what the body receiver has been given so far
    finishedCalls,  \* how often finished.callback / finished.errback ran
    finishedResult, \* what finished was resolved with, or Unresolved
    lastFailure,    \* the failure of the latest failed transport attempt
    download_path,  \* content of the file download() streams into, or None
    \* the on-disk cache (config.inputs_directory)
    payload,        \* id -> content of the file <id>, or None when absent
    descriptor,     \* id -> text of the file <id>.desc, or None when absent
    call,           \* the latest cache-predicate call and what it gave
    \* Deck
    netTestLoaders, \* self.netTestLoaders: the deck's tests, in order
    bouncer,        \* self.bouncer: "" or the bouncer's address
    no_collector,   \* self.no_collector
    dpc,            \* "idle", "downloading", "lookup", "done", "failed"
    entry,          \* the method that was invoked: "setup", "lookupCollector"
    cur,            \* <<test, input>> whose download is outstanding
    derr,           \* the exception the invoked method failed with, or None
    downloads,      \* number of download requests issued
    lookups,        \* number of lookupTestCollector calls issued
    required_nettests, \* the records sent with the latest lookup
    provided_net_tests, \* response['net-tests'] of the latest lookup
    selected,       \* per test handled: the index of the assignment found, 0 for none
    failedInput,    \* <<test, input>> whose download or verification failed
    helperLookups,  \* number of BouncerClient.lookupTestHelpers calls issued
    required_test_helpers, \* the helper names sent with the latest helper lookup
    helpers_response, \* the response of the latest helper lookup
    reinvocations,  \* how often a lookup phase was invoked again after one ended
    startLoaders,   \* self.netTestLoaders as the latest phase found them
    \* a role client (BouncerClient, CollectorClient) and one method call on it
    method,         \* the method invoked last, or None
    target,         \* the input or deck hash the method was given, or None
    cpc,            \* "idle", "querying", "downloading", "done"
    netResult,      \* what queryBackend / download ended with, or Unresolved
    returned,       \* what the Deferred the method returned fired with
    netRequests,    \* queryBackend / download calls the latest call issued
    \* OONIBClient.__init__
    address,        \* the address argument, or None
    settings,       \* settings: the 'type' and 'address' entries, or None
    backend_type,   \* self.backend_type
    base_address,   \* self.base_address
    constructed,    \* "no", "yes", or the exception __init__ raised
    \* Deck.insert and what it reads
    requiresTor,    \* self.requiresTor
    insecure_collector, \* config.advanced.insecure_collector, as Python prints it
    twisted_version, \* twisted.version: <<major, minor, micro>>
    inserted        \* the latest insert call: its test, what checkOptions did,
                    \* and "ok" or the exception insert raised

reqVars == <<rpc, op, retries, attempts, pending, requestsMade, response,
             data, finishedCalls, finishedResult, lastFailure, download_path>>

cacheVars == <<payload, descriptor, call>>

deckVars == <<netTestLoaders, bouncer, no_collector, dpc, entry, cur, derr,
              downloads, lookups, required_nettests, provided_net_tests,
              selected, failedInput>>

helperVars == <<helperLookups, required_test_helpers, helpers_response,
                reinvocations, startLoaders>>

clientVars == <<method, target, cpc, netResult, returned, netRequests>>

addrVars == <<address, settings, backend_type, base_address, constructed>>

insertVars == <<requiresTor, insecure_collector, twisted_version, inserted>>

\* what the actions on _request, the cache and Deck.setup leave alone
restVars == <<helperVars, clientVars, addrVars, insertVars>>

\* everything _request leaves alone
notReqVars == <<cacheVars, deckVars, restVars>>

vars == <<reqVars, cacheVars, deckVars, restVars>>

(* ------------------------- OONIBClient._request ------------------------ *)

\* no response has been handed to callback yet
NoResponse == [status |-> 0, body |-> "", content_length |-> FALSE]

\* a transport attempt produced a response
responded == response # NoResponse

\* errback: the test that decides between another attempt and giving up
ShouldRetryInclusive(att, ret) == att <= ret
ShouldRetry(att, ret) == att < ret

\* perform_request(att): one agent.request call, outstanding until it fires
perform_request(att) ==
    /\ attempts' = att
    /\ pending' = pending \cup {requestsMade + 1}
    /\ requestsMade' = requestsMade + 1

\* _request: attempts = 0, a fresh Deferred, the first perform_request
Request(o, r) ==
    /\ rpc = "idle"
    /\ rpc' = "requesting"
    /\ op' = o
    /\ retries' = r
    /\ perform_request(0)
    /\ UNCHANGED <<response, data, finishedCalls, finishedResult, lastFailure,
                   download_path, notReqVars>>

\* queryBackend(method, urn, query, retries)
queryBackend(r) == Request("query", r)

\* download(urn, download_path): _request with the default retries
download == Request("download", DefaultRetries)

\* finished.callback(v) / finished.errback(e)
resolve(result) ==
    /\ finishedCalls' = finishedCalls + 1
    /\ finishedResult' = IF finishedCalls = 0 THEN result ELSE finishedResult

\* errback(err, attempts): another perform_request while attempts < retries,
\* else finished.errback(err)
retry_or_finish(err) ==
    /\ lastFailure' = err
    /\ IF ShouldRetry(attempts, retries)
         THEN /\ attempts' = attempts + 1
              /\ pending' = (pending \ {CHOOSE p \in pending : TRUE})
                                \cup {requestsMade + 1}
              /\ requestsMade' = requestsMade + 1
              /\ UNCHANGED <<rpc, finishedCalls, finishedResult>>
         ELSE /\ pending' = pending \ {CHOOSE p \in pending : TRUE}
              /\ resolve(Raised(err, None))
              /\ rpc' = "done"
              /\ UNCHANGED <<attempts, requestsMade>>

\* perform_request.callback: agent.request fired with a response, whose body
\* is handed to the receiver genReceiver builds, and no further attempt is
\* made; an exception raised on the way goes to errback, which is attached
\* after callback on the same Deferred
on_response(resp, raised) ==
    /\ rpc = "requesting"
    /\ pending # {}
    /\ response' = resp
    /\ data' = ""
    /\ IF raised = None
         THEN /\ pending' = pending \ {CHOOSE p \in pending : TRUE}
              /\ rpc' = "receiving"
              /\ UNCHANGED <<attempts, requestsMade, finishedCalls,
                             finishedResult, lastFailure>>
         ELSE retry_or_finish(raised)
    /\ UNCHANGED <<op, retries, download_path>>

\* callback on a client that is used for nothing else
callback(resp, raised) == on_response(resp, raised) /\ UNCHANGED notReqVars

\* perform_request.errback called for a failure of agent.request (on_failure),
\* on a client that is used for nothing else (errback)
errbackAlsoFails(err) ==
    /\ rpc = "requesting"
    /\ pending # {}
    /\ lastFailure' = err
    /\ IF ShouldRetry(attempts, retries)
         THEN /\ attempts' = attempts + 1
              /\ pending' = {requestsMade + 1}
              /\ requestsMade' = requestsMade + 1
              /\ resolve(Raised(err, None))
              /\ UNCHANGED rpc
         ELSE /\ pending' = {}
              /\ resolve(Raised(err, None))
              /\ rpc' = "done"
              /\ UNCHANGED <<attempts, requestsMade>>
    /\ UNCHANGED <<op, retries, response, data, download_path, notReqVars>>
errbackGivesUpSilently(err) ==
    /\ rpc = "requesting"
    /\ pending # {}
    /\ lastFailure' = err
    /\ IF ShouldRetry(attempts, retries)
         THEN /\ attempts' = attempts + 1
              /\ pending' = (pending \ {CHOOSE p \in pending : TRUE})
                                \cup {requestsMade + 1}
              /\ requestsMade' = requestsMade + 1
         ELSE /\ pending' = pending \ {CHOOSE p \in pending : TRUE}
              /\ UNCHANGED <<attempts, requestsMade>>
    /\ UNCHANGED <<rpc, finishedCalls, finishedResult, op, retries, response,
                   data, download_path, notReqVars>>
on_failure(err) ==
    /\ rpc = "requesting"
    /\ pending # {}
    /\ retry_or_finish(err)
    /\ UNCHANGED <<op, retries, response, data, download_path>>
errback(err) == on_failure(err) /\ UNCHANGED notReqVars

\* the receiver's dataReceived: the body arrives
on_data ==
    /\ rpc = "receiving"
    /\ response.body # ""
    /\ data = ""
    /\ data' = response.body
    /\ UNCHANGED <<rpc, op, retries, attempts, pending, requestsMade, response,
                   finishedCalls, finishedResult, lastFailure, download_path>>
dataReceived == on_data /\ UNCHANGED notReqVars

\* the receiver's connectionLost: BodyReceiver resolves finished with what
\* process_response returns or raises; Downloader closes the file it wrote
\* and resolves finished
on_close ==
    /\ rpc = "receiving"
    /\ data = response.body
    /\ rpc' = "done"
    /\ IF op = "query"
         THEN /\ resolve(process_response(data))
              /\ UNCHANGED download_path
         ELSE /\ resolve(Returned(NoneValue))
              /\ download_path' = data
    /\ UNCHANGED <<op, retries, attempts, pending, requestsMade, response, data,
                   lastFailure>>
connectionLost == on_close /\ UNCHANGED notReqVars

\* no helper lookup has been answered
NoHelpersResponse == [helpers |-> <<>>, default |-> None]

\* no method of a role client has been called
NoClientCall ==
    /\ method = None
    /\ target = None
    /\ cpc = "idle"
    /\ netResult = Unresolved
    /\ returned = Unresolved
    /\ netRequests = 0

\* settings={} : neither a type nor an address is given
NoSettings == [type |-> None, address |-> None, front |-> None]

\* no client has been constructed
NoClient ==
    /\ address = None
    /\ settings = NoSettings
    /\ backend_type = None
    /\ base_address = None
    /\ constructed = "no"

\* twisted.python.versions.Version('twisted', 14, 0, 2)
twisted_14_0_2_version == <<14, 0, 2>>

\* no test has been handed to Deck.insert: requiresTor is as Deck.__init__
\* set it, and the configuration is one under which insert rejects nothing
NoInsert ==
    /\ requiresTor = FALSE
    /\ insecure_collector = "True"
    /\ twisted_version = twisted_14_0_2_version
    /\ inserted = [test |-> <<>>, checkOptions |-> <<>>, outcome |-> None]

\* a Deck on which no method has been invoked: Deck.__init__
DeckIdle ==
    /\ helperLookups = 0
    /\ required_test_helpers = <<>>
    /\ helpers_response = NoHelpersResponse
    /\ reinvocations = 0
    /\ startLoaders = netTestLoaders
    /\ dpc = "idle"
    /\ entry = None
    /\ cur = <<0, 0>>
    /\ derr = None
    /\ downloads = 0
    /\ lookups = 0
    /\ required_nettests = <<>>
    /\ provided_net_tests = <<>>
    /\ selected = <<>>
    /\ failedInput = <<0, 0>>

\* an empty deck with no bouncer
NoDeck ==
    /\ netTestLoaders = <<>>
    /\ bouncer = ""
    /\ no_collector = FALSE
    /\ DeckIdle

\* no request has been made: the state _request starts from
NoRequest ==
    /\ rpc = "idle"
    /\ op = None
    /\ retries = 0
    /\ attempts = 0
    /\ pending = {}
    /\ requestsMade = 0
    /\ response = NoResponse
    /\ data = ""
    /\ finishedCalls = 0
    /\ finishedResult = Unresolved
    /\ lastFailure = None
    /\ download_path = None

\* no cache predicate has been called since the cache last changed
NoCall == [fn |-> None, id |-> None, result |-> None]

ReqInit ==
    /\ NoRequest
    /\ NoClientCall
    /\ NoInsert
    /\ NoClient
    /\ payload = [h \in Hashes |-> None]
    /\ descriptor = [h \in Hashes |-> None]
    /\ call = NoCall
    /\ NoDeck

Responses ==
    [status : Statuses, body : Bodies, content_length : BOOLEAN]

ReqNext ==
    \/ \E r \in 0..MaxRetries : queryBackend(r)
    \/ download
    \/ \E resp \in Responses, raised \in {None} \cup ReceiverErrors :
          callback(resp, raised)
    \/ \E err \in TransportErrors : errback(err)
    \/ dataReceived
    \/ connectionLost

SpecReq == ReqInit /\ [][ReqNext]_vars

\* SpecReq when the reactor keeps running: every agent.request fires, with
\* a response or with a failure, and the body of a response is delivered
\* to its end
SpecReqLive ==
    /\ ReqInit
    /\ [][ReqNext]_vars
    /\ WF_vars(\E resp \in Responses, raised \in {None} \cup ReceiverErrors :
                  callback(resp, raised))
    /\ WF_vars(\E err \in TransportErrors : errback(err))
    /\ WF_vars(dataReceived)
    /\ WF_vars(connectionLost)

(* --------------------------- InputFile (cache) ------------------------- *)

\* os.path.exists(self.cached_file) / os.path.exists(self.cached_descriptor)
exists(files, id) == files[id] # None

\* InputFile.verify: the digest is the file's name, the assert compares the
\* SHA-256 of the content with it; "AssertionError" when they differ,
\* "IOError" when the file cannot be opened
verifyWithoutCompare(files, id) ==
    IF ~exists(files, id) THEN "IOError" ELSE "ok"
verify(files, id) ==
    IF ~exists(files, id)
      THEN "IOError"
      ELSE IF sha256(files[id]) = id THEN "ok" ELSE "AssertionError"

\* InputFile.fileCached: "True" or "False"
fileCached(files, id) ==
    IF exists(files, id)
      THEN IF verify(files, id) = "AssertionError" THEN "False" ELSE "True"
      ELSE "False"

\* the fields InputFile.load reads from a descriptor
DescriptorFields == {"name", "version", "author", "date", "description"}

\* InputFile.load(descriptor): "ok", or the exception the first failing
\* descriptor[...] raises
load(d) ==
    IF d.kind # "dict"
      THEN "TypeError"
      ELSE IF DescriptorFields \subseteq d.keys THEN "ok" ELSE "KeyError"

\* InputFile.descriptorCached: "True", "False", or the exception that
\* json.load or self.load raises out of the property
descriptorCached(files, id) ==
    IF exists(files, id)
      THEN LET d == json_loads(files[id]) IN
           IF d.kind = "ValueError"
             THEN "ValueError"
             ELSE IF load(d) # "ok" THEN load(d) ELSE "True"
      ELSE "False"

\* a download streams content into the payload file of id
writePayload(id, content) ==
    /\ payload' = [payload EXCEPT ![id] = content]
    /\ payload' # payload
    /\ call' = NoCall
    /\ UNCHANGED <<descriptor, reqVars, deckVars, restVars>>

\* InputFile(id).fileCached is evaluated
CallFileCached(id) ==
    /\ call' = [fn |-> "fileCached", id |-> id, result |-> fileCached(payload, id)]
    /\ UNCHANGED <<payload, descriptor, reqVars, deckVars, restVars>>

\* InputFile(id).descriptorCached is evaluated
CallDescriptorCached(id) ==
    /\ call' = [fn |-> "descriptorCached", id |-> id,
                result |-> descriptorCached(descriptor, id)]
    /\ UNCHANGED <<payload, descriptor, reqVars, deckVars, restVars>>

CacheInit ==
    /\ NoRequest
    /\ NoClientCall
    /\ NoInsert
    /\ NoClient
    /\ payload \in [Hashes -> Contents \cup {None}]
    /\ descriptor \in [Hashes -> DescriptorTexts \cup {None}]
    /\ call = NoCall
    /\ NoDeck

CacheNext ==
    \/ \E id \in Hashes, content \in Contents : writePayload(id, content)
    \/ \E id \in Hashes : CallFileCached(id)
    \/ \E id \in Hashes : CallDescriptorCached(id)

SpecCache == CacheInit /\ [][CacheNext]_vars

(* -------------------------------- Deck --------------------------------- *)

\* Python's  not x  for a collector or bouncer attribute: None or ''
unset(x) == x \in {None, ""}

\* Python's set(list)
ToSet(seq) == {seq[k] : k \in DOMAIN seq}

\* all lists of length 0..n over S
ListsUpTo(S, n) == UNION {[1..k -> S] : k \in 0..n}

\* input_file.cached_file: the payload path of id under inputs_directory
cached_file(id) == <<"inputs_directory", id>>

\* option slots a test helper's address goes into, and helper names
Options == {"backend", "dns"}
HelperNames == {"h1", "h2"}

\* an entry of NetTestLoader.inputFiles; test_option is the slot
\* i['test_options'][i['key']], empty until setup stores the cache path
InputOf(hash, url) == [hash |-> hash, url |-> url, test_option |-> <<>>]

\* a NetTestLoader as Deck.insert received it
Loader(name, version, collector, inputs, missing) ==
    [testName |-> name, testVersion |-> version, collector |-> collector,
     inputFiles |-> inputs, missingTestHelpers |-> missing,
     localOptions |-> [o \in Options |-> None],
     testHelpers |-> [o \in Options |-> None]]

\* [x['hash'] for x in net_test_loader.inputFiles]
input_hashes(inputFiles) == [k \in DOMAIN inputFiles |-> inputFiles[k].hash]

\* map(lambda x: x[1], net_test_loader.missingTestHelpers)
helper_names(missing) == [k \in DOMAIN missing |-> missing[k][2]]

\* the record lookupCollector builds for one test
nettest(loader) ==
    [name |-> loader.testName,
     version |-> loader.testVersion,
     test_helpers |-> helper_names(loader.missingTestHelpers),
     input_hashes |-> input_hashes(loader.inputFiles)]

\* lookupCollector's two flags
requires_collectorIgnoringFlag(loaders, nc) ==
    \E k \in DOMAIN loaders : unset(loaders[k].collector)
requires_collector(loaders, nc) ==
    \E k \in DOMAIN loaders : unset(loaders[k].collector) /\ ~nc
requires_test_helpers(loaders) ==
    \E k \in DOMAIN loaders : Len(loaders[k].missingTestHelpers) > 0

\* the loop body of find_collector_and_test_helpers: an assignment is passed
\* over when its name, its version or its set of input hashes differs
assignment_matchesSubset(net_test, test_name, test_version, hashes) ==
    /\ ~(net_test.name # test_name)
    /\ ~(net_test.version # test_version)
    /\ ToSet(hashes) \subseteq ToSet(net_test.input_hashes)
assignment_matches(net_test, test_name, test_version, hashes) ==
    /\ ~(net_test.name # test_name)
    /\ ~(net_test.version # test_version)
    /\ ~(ToSet(net_test.input_hashes) # ToSet(hashes))

\* find_collector_and_test_helpers: the index in provided of the first
\* assignment that is not passed over, 0 when the loop ends (returns None)
find_collector_and_test_helpers(test_name, test_version, input_files, provided) ==
    LET hits == {k \in DOMAIN provided :
                    assignment_matches(provided[k], test_name, test_version,
                                       input_hashes(input_files))}
    IN IF hits = {} THEN 0 ELSE CHOOSE k \in hits : \A j \in hits : k <= j

\* lookupCollector's loop over missingTestHelpers from the j-th on:
\* test_helpers[name] raises KeyError for a helper the assignment lacks
RECURSIVE set_test_helpers(_, _, _)
set_test_helpers(loader, test_helpers, j) ==
    IF j > Len(loader.missingTestHelpers)
      THEN [loader |-> loader, err |-> None]
      ELSE LET option == loader.missingTestHelpers[j][1]
               name == loader.missingTestHelpers[j][2]
           IN IF test_helpers[name] = None
                THEN [loader |-> loader, err |-> "KeyError"]
                ELSE set_test_helpers(
                       [loader EXCEPT !.localOptions[option] = test_helpers[name],
                                      !.testHelpers[option] = test_helpers[name]],
                       test_helpers, j + 1)

\* lookupCollector's loop over the tests from the k-th on: unpacking the
\* None that find_collector_and_test_helpers returns raises TypeError
RECURSIVE set_collectors(_, _, _, _)
set_collectors(loaders, k, provided, sel) ==
    IF k > Len(loaders)
      THEN [loaders |-> loaders, err |-> None, selected |-> sel]
      ELSE LET t == loaders[k]
               idx == find_collector_and_test_helpers(
                          t.testName, t.testVersion, t.inputFiles, provided)
           IN IF idx = 0
                THEN [loaders |-> loaders, err |-> "TypeError",
                      selected |-> Append(sel, 0)]
                ELSE LET h == set_test_helpers(t, provided[idx].test_helpers, 1)
                         done == IF unset(h.loader.collector)
                                   THEN [h.loader EXCEPT
                                           !.collector = provided[idx].collector]
                                   ELSE h.loader
                     IN IF h.err # None
                          THEN [loaders |-> [loaders EXCEPT ![k] = h.loader],
                                err |-> h.err, selected |-> Append(sel, idx)]
                          ELSE set_collectors([loaders EXCEPT ![k] = done],
                                              k + 1, provided, Append(sel, idx))

\* CollectorClient.downloadInput once its download ended: cb verifies the
\* file and returns input_file; err logs a failed download or a failed
\* verification and returns nothing, so the Deferred fires with None
downloadInput(downloaded, files, id) ==
    IF downloaded /\ verify(files, id) = "ok" THEN "input_file" ELSE "None"

\* fetchAndVerifyNetTestInput after the yield: a failed Deferred and a failed
\* assert become UnableToLoadDeckInput, None has no verify (AttributeError)
verify_inputSkippingNone(input_file, files, id) ==
    CASE input_file = "Failure" -> "UnableToLoadDeckInput"
      [] input_file = "None" -> "ok"
      [] OTHER -> IF verify(files, id) = "AssertionError"
                    THEN "UnableToLoadDeckInput"
                    ELSE verify(files, id)
verify_input(input_file, files, id) ==
    CASE input_file = "Failure" -> "UnableToLoadDeckInput"
      [] input_file = "None" -> "AttributeError"
      [] OTHER -> IF verify(files, id) = "AssertionError"
                    THEN "UnableToLoadDeckInput"
                    ELSE verify(files, id)

\* i['test_options'][i['key']] = input_file.cached_file
set_test_option(loaders, li, ii) ==
    [loaders EXCEPT ![li].inputFiles[ii].test_option =
                        cached_file(loaders[li].inputFiles[ii].hash)]

\* Deck.setup's loop over fetchAndVerifyNetTestInput, from input ii of test
\* li up to the first download that has to wait for the network
RECURSIVE fetchAndVerifyNetTestInput(_, _, _, _)
fetchAndVerifyNetTestInput(loaders, li, ii, files) ==
    IF li > Len(loaders)
      THEN [pc |-> "fetched", loaders |-> loaders, cur |-> <<0, 0>>, err |-> None]
      ELSE IF ii > Len(loaders[li].inputFiles)
        THEN fetchAndVerifyNetTestInput(loaders, li + 1, 1, files)
        ELSE LET i == loaders[li].inputFiles[ii] IN
             IF ~i.url
               THEN fetchAndVerifyNetTestInput(loaders, li, ii + 1, files)
               ELSE IF fileCached(files, i.hash) # "True"
                 THEN [pc |-> "downloading", loaders |-> loaders,
                       cur |-> <<li, ii>>, err |-> None]
                 ELSE IF verify_input("input_file", files, i.hash) # "ok"
                   THEN [pc |-> "failed", loaders |-> loaders,
                         cur |-> <<li, ii>>,
                         err |-> verify_input("input_file", files, i.hash)]
                   ELSE fetchAndVerifyNetTestInput(
                            set_test_option(loaders, li, ii), li, ii + 1, files)

\* the start of lookupCollector: nothing is sent when no test needs a
\* collector or a helper, else one lookupTestCollector call is outstanding
start_lookupCollector(loaders) ==
    IF requires_test_helpers(loaders) \/ requires_collector(loaders, no_collector)
      THEN /\ dpc' = "lookup"
           /\ lookups' = lookups + 1
           /\ required_nettests' = [k \in DOMAIN loaders |-> nettest(loaders[k])]
      ELSE /\ dpc' = "done"
           /\ UNCHANGED <<lookups, required_nettests>>

\* Deck.setup resumed after fetchAndVerifyNetTestInput stopped at conf
resume_setup(conf) ==
    /\ netTestLoaders' = conf.loaders
    /\ CASE conf.pc = "downloading" ->
              /\ dpc' = "downloading"
              /\ cur' = conf.cur
              /\ downloads' = downloads + 1
              /\ UNCHANGED <<derr, lookups, required_nettests, failedInput>>
         [] conf.pc = "failed" ->
              /\ dpc' = "failed"
              /\ derr' = conf.err
              /\ failedInput' = conf.cur
              /\ UNCHANGED <<cur, downloads, lookups, required_nettests>>
         [] OTHER ->
              /\ cur' = conf.cur
              /\ UNCHANGED <<derr, downloads, failedInput>>
              /\ IF unset(bouncer)
                   THEN /\ dpc' = "done"
                        /\ UNCHANGED <<lookups, required_nettests>>
                   ELSE start_lookupCollector(conf.loaders)
    /\ UNCHANGED <<bouncer, no_collector, provided_net_tests, selected>>

\* Deck.setup()
setup ==
    /\ dpc = "idle"
    /\ entry' = "setup"
    /\ resume_setup(fetchAndVerifyNetTestInput(netTestLoaders, 1, 1, payload))
    /\ UNCHANGED <<payload, descriptor, call, reqVars, restVars>>

\* the outstanding download ended, having written content or having failed
download_ended(downloaded, files) ==
    LET li == cur[1]
        ii == cur[2]
        id == netTestLoaders[li].inputFiles[ii].hash
        outcome == verify_input(downloadInput(downloaded, files, id), files, id)
    IN /\ dpc = "downloading"
       /\ payload' = files
       /\ IF outcome = "ok"
            THEN resume_setup(fetchAndVerifyNetTestInput(
                     set_test_option(netTestLoaders, li, ii), li, ii + 1, files))
            ELSE resume_setup([pc |-> "failed", loaders |-> netTestLoaders,
                               cur |-> cur, err |-> outcome])
       /\ UNCHANGED <<entry, descriptor, call, reqVars, restVars>>

\* the download of the input at cur completed: the file holds content
DownloadSucceeds(content) ==
    /\ dpc = "downloading"
    /\ download_ended(TRUE,
          [payload EXCEPT ![netTestLoaders[cur[1]].inputFiles[cur[2]].hash] = content])

\* the download of the input at cur failed after its retries
DownloadFails ==
    /\ dpc = "downloading"
    /\ download_ended(FALSE, payload)

\* Deck.lookupCollector() called on its own
lookupCollector ==
    /\ dpc = "idle"
    /\ entry' = "lookupCollector"
    /\ start_lookupCollector(netTestLoaders)
    /\ UNCHANGED <<netTestLoaders, bouncer, no_collector, cur, derr, downloads,
                   provided_net_tests, selected, failedInput>>
    /\ UNCHANGED <<cacheVars, reqVars, restVars>>

\* lookupTestCollector answered: lookupCollector sets collectors and helpers
LookupAnswered(provided) ==
    /\ dpc = "lookup"
    /\ LET r == set_collectors(netTestLoaders, 1, provided, <<>>) IN
         /\ netTestLoaders' = r.loaders
         /\ selected' = r.selected
         /\ derr' = r.err
         /\ dpc' = IF r.err = None THEN "done" ELSE "failed"
    /\ provided_net_tests' = provided
    /\ UNCHANGED <<bouncer, no_collector, entry, cur, downloads, lookups,
                   required_nettests, failedInput>>
    /\ UNCHANGED <<cacheVars, reqVars, restVars>>

\* lookupTestCollector failed: CouldNotFindTestCollector leaves lookupCollector
LookupFails ==
    /\ dpc = "lookup"
    /\ dpc' = "failed"
    /\ derr' = "CouldNotFindTestCollector"
    /\ UNCHANGED <<netTestLoaders, bouncer, no_collector, entry, cur, downloads,
                   lookups, required_nettests, provided_net_tests, selected,
                   failedInput>>
    /\ UNCHANGED <<cacheVars, reqVars, restVars>>

(* ----------------------- decks and bouncer answers --------------------- *)

BouncerAddress == "httpo://bouncer.onion"
OwnCollector == "httpo://own.onion"

\* an input hash only the bouncer mentions
Hc == "fb8e20fc2e4c3f248c60c39bd652f3c1347298bb977b8b4d5903b85055620603"

\* the inputFiles of the tests that Deck.setup is run on: none, one remote
\* input, two remote inputs, a local input (no url) before a remote one
SetupInputLists ==
    { <<>>,
      <<InputOf(Ha, TRUE)>>,
      <<InputOf(Ha, TRUE), InputOf(Hb, TRUE)>>,
      <<InputOf(Hb, FALSE), InputOf(Ha, TRUE)>> }

SetupLoaders ==
    {Loader("x", "1", c, inputs, <<>>) :
        c \in {None, OwnCollector}, inputs \in SetupInputLists}

\* the tests that lookupCollector is run on directly
LookupInputLists ==
    { <<InputOf(Ha, FALSE)>>,
      <<InputOf(Ha, FALSE), InputOf(Hb, FALSE)>> }

LookupLoaders ==
    {Loader("x", "1", c, inputs, missing) :
        c \in {None, OwnCollector}, inputs \in LookupInputLists,
        missing \in {<<>>, << <<"backend", "h1">> >>}}

\* the 'input-hashes' lists the bouncer answers with: a strict subset of
\* {Ha, Hb}, the same set reordered with a duplicate, a strict superset
ProvidedHashes == {<<Ha>>, <<Hb, Ha, Ha>>, <<Ha, Hb, Hc>>}

\* each answer names a collector of its own
ProvidedCollector(hashes) ==
    CASE hashes = <<Ha>> -> "httpo://c1.onion"
      [] hashes = <<Hb, Ha, Ha>> -> "httpo://c2.onion"
      [] OTHER -> "httpo://c3.onion"

\* the entries of response['net-tests']: for test x version 1 with and
\* without the address of helper h1, for another version and another name
\* with it
Assignments ==
    {[name |-> nv[1], version |-> nv[2], input_hashes |-> hashes,
      collector |-> ProvidedCollector(hashes), test_helpers |-> helpers] :
        nv \in {<<"x", "1">>, <<"x", "2">>, <<"y", "1">>},
        hashes \in ProvidedHashes,
        helpers \in [HelperNames -> {"10.0.0.1"}]}
    \cup
    {[name |-> "x", version |-> "1", input_hashes |-> hashes,
      collector |-> ProvidedCollector(hashes), test_helpers |-> helpers] :
        hashes \in ProvidedHashes,
        helpers \in [HelperNames -> {None}]}

\* the cache Deck.setup starts from: each payload absent, intact, or (for
\* Ha) holding other content
SetupCaches ==
    {files \in [Hashes -> Contents \cup {None}] :
        files[Ha] \in {None, "a", "b"} /\ files[Hb] \in {None, "b"}}

DeckInit ==
    /\ NoRequest
    /\ NoClientCall
    /\ NoInsert
    /\ NoClient
    /\ payload \in SetupCaches
    /\ descriptor = [h \in Hashes |-> None]
    /\ call = NoCall
    /\ netTestLoaders \in ListsUpTo(SetupLoaders, MaxTests) \ {<<>>}
    /\ \E cfg \in {<<"", FALSE>>, <<BouncerAddress, FALSE>>, <<BouncerAddress, TRUE>>} :
          bouncer = cfg[1] /\ no_collector = cfg[2]
    /\ DeckIdle

DeckNext ==
    \/ setup
    \/ /\ dpc = "downloading"
       /\ \E content \in Contents : DownloadSucceeds(content)
    \/ DownloadFails
    \/ /\ dpc = "lookup"
       /\ \E provided \in ListsUpTo(Assignments, 1) : LookupAnswered(provided)
    \/ LookupFails

\* Deck.setup over decks of up to MaxTests tests
SpecDeck == DeckInit /\ [][DeckNext]_vars

LookupInit ==
    /\ NoRequest
    /\ NoClientCall
    /\ NoInsert
    /\ NoClient
    /\ payload = [h \in Hashes |-> None]
    /\ descriptor = [h \in Hashes |-> None]
    /\ call = NoCall
    /\ netTestLoaders \in ListsUpTo(LookupLoaders, MaxLookupTests) \ {<<>>}
    /\ bouncer = BouncerAddress
    /\ no_collector \in BOOLEAN
    /\ DeckIdle

LookupNext ==
    \/ lookupCollector
    \/ /\ dpc = "lookup"
       /\ \E provided \in ListsUpTo(Assignments, MaxAssignments) :
             LookupAnswered(provided)
    \/ LookupFails

\* Deck.lookupCollector over decks of up to MaxLookupTests tests and answers
\* of up to MaxAssignments assignments
SpecLookup == LookupInit /\ [][LookupNext]_vars

(* ------------- Deck.lookupTestHelpers and repeated phases -------------- *)

\* how often a lookup phase is invoked again on the same deck
MaxReinvocations == 1

\* an entry response[name] of a helper lookup, and an absent one
Helper(a, c) == [address |-> a, collector |-> c]
NoHelper == Helper(None, None)

\* required_test_helpers: the names of the missing helpers of all tests
RECURSIVE required_helper_names(_)
required_helper_names(loaders) ==
    IF loaders = <<>>
      THEN <<>>
      ELSE helper_names(Head(loaders).missingTestHelpers)
               \o required_helper_names(Tail(loaders))

\* lookupTestHelpers's list requires_collector, as positions in the deck
requires_collector_listEveryTest(loaders, nc) ==
    {k \in DOMAIN loaders : ~nc}
requires_collector_list(loaders, nc) ==
    {k \in DOMAIN loaders : unset(loaders[k].collector) /\ ~nc}

\* lookupTestHelpers's assignments for one missing helper
use_helperOptionOnly(loader, option, helper, wants_collector) ==
    [loader EXCEPT !.localOptions[option] = helper.address]
use_helper(loader, option, helper, wants_collector) ==
    [loader EXCEPT !.localOptions[option] = helper.address,
                   !.testHelpers[option] = helper.address,
                   !.collector = IF wants_collector THEN helper.collector ELSE @]

\* lookupTestHelpers's loop over missingTestHelpers from the j-th on:
\* response[name] raises KeyError for a helper the response lacks
RECURSIVE use_helpers(_, _, _, _)
use_helpers(loader, resp, wants_collector, j) ==
    IF j > Len(loader.missingTestHelpers)
      THEN [loader |-> loader, err |-> None]
      ELSE LET option == loader.missingTestHelpers[j][1]
               name == loader.missingTestHelpers[j][2]
           IN IF resp.helpers[name] = NoHelper
                THEN [loader |-> loader, err |-> "KeyError"]
                ELSE use_helpers(use_helper(loader, option, resp.helpers[name],
                                            wants_collector),
                                 resp, wants_collector, j + 1)

\* lookupTestHelpers's loop over the tests from the k-th on: a test without
\* missing helpers that requires a collector takes the default collector
\* (KeyError when the response has none), any other test its helpers
RECURSIVE set_helpers(_, _, _, _)
set_helpers(loaders, k, resp, requiring) ==
    IF k > Len(loaders)
      THEN [loaders |-> loaders, err |-> None]
      ELSE IF Len(loaders[k].missingTestHelpers) = 0 /\ k \in requiring
        THEN IF resp.default = None
               THEN [loaders |-> loaders, err |-> "KeyError"]
               ELSE set_helpers([loaders EXCEPT ![k].collector = resp.default],
                                k + 1, resp, requiring)
        ELSE LET h == use_helpers(loaders[k], resp, k \in requiring, 1) IN
             IF h.err # None
               THEN [loaders |-> [loaders EXCEPT ![k] = h.loader], err |-> h.err]
               ELSE set_helpers([loaders EXCEPT ![k] = h.loader],
                                k + 1, resp, requiring)

\* a lookup phase is entered: on a fresh deck, or again after a phase ended
\* without error
enter_phase(name) ==
    /\ dpc \in {"idle", "done"}
    /\ IF dpc = "idle"
         THEN UNCHANGED reinvocations
         ELSE /\ reinvocations < MaxReinvocations
              /\ reinvocations' = reinvocations + 1
    /\ entry' = name
    /\ startLoaders' = netTestLoaders
    /\ UNCHANGED <<netTestLoaders, bouncer, no_collector, cur, derr, downloads,
                   provided_net_tests, failedInput>>
    /\ UNCHANGED <<cacheVars, reqVars, clientVars, addrVars, insertVars>>

\* Deck.lookupTestHelpers(): nothing is sent when no helper is missing and no
\* test requires a collector, else one lookupTestHelpers call is outstanding
lookupTestHelpers ==
    /\ enter_phase("lookupTestHelpers")
    /\ required_test_helpers' = required_helper_names(netTestLoaders)
    /\ helpers_response' = NoHelpersResponse
    /\ IF required_helper_names(netTestLoaders) = <<>>
            /\ requires_collector_list(netTestLoaders, no_collector) = {}
         THEN /\ dpc' = "done"
              /\ UNCHANGED helperLookups
         ELSE /\ dpc' = "helpers"
              /\ helperLookups' = helperLookups + 1
    /\ UNCHANGED <<lookups, required_nettests, selected>>

\* Deck.lookupCollector() called again on a deck whose previous phase ended
lookupCollectorAgain ==
    /\ dpc = "done"
    /\ enter_phase("lookupCollector")
    /\ start_lookupCollector(netTestLoaders)
    /\ selected' = <<>>
    /\ UNCHANGED <<helperLookups, required_test_helpers, helpers_response>>

\* lookupTestHelpers answered: the deck's tests take their helpers and
\* collectors from the response
HelpersAnswered(resp) ==
    /\ dpc = "helpers"
    /\ LET r == set_helpers(netTestLoaders, 1, resp,
                            requires_collector_list(startLoaders, no_collector))
       IN /\ netTestLoaders' = r.loaders
          /\ derr' = r.err
          /\ dpc' = IF r.err = None THEN "done" ELSE "failed"
    /\ helpers_response' = resp
    /\ UNCHANGED <<bouncer, no_collector, entry, cur, downloads, lookups,
                   required_nettests, provided_net_tests, selected, failedInput,
                   helperLookups, required_test_helpers, reinvocations,
                   startLoaders>>
    /\ UNCHANGED <<cacheVars, reqVars, clientVars, addrVars, insertVars>>

\* BouncerClient.lookupTestHelpers failed: CouldNotFindTestHelper leaves
\* Deck.lookupTestHelpers
HelpersFail ==
    /\ dpc = "helpers"
    /\ dpc' = "failed"
    /\ derr' = "CouldNotFindTestHelper"
    /\ UNCHANGED <<netTestLoaders, bouncer, no_collector, entry, cur, downloads,
                   lookups, required_nettests, provided_net_tests, selected,
                   failedInput, helperVars>>
    /\ UNCHANGED <<cacheVars, reqVars, clientVars, addrVars, insertVars>>

\* the tests the phases are run on: with and without a collector, lacking
\* no helper, one helper, or two helpers for two option slots
PhaseLoaders ==
    {Loader("x", "1", c, <<InputOf(Ha, FALSE)>>, missing) :
        c \in {None, OwnCollector},
        missing \in {<<>>, << <<"backend", "h1">> >>,
                     << <<"backend", "h1">>, <<"dns", "h2">> >>}}

\* decks of one test and of two tests
PhaseDecks ==
    {<<t>> : t \in PhaseLoaders} \cup {<<t, u>> : t \in PhaseLoaders, u \in PhaseLoaders}

DefaultCollector == "httpo://default.onion"

\* the responses BouncerClient.lookupTestHelpers hands on: each helper
\* present or absent, the default collector present or absent, not empty
HelperResponses ==
    {resp \in [helpers : [HelperNames -> {NoHelper, Helper("10.0.0.2", "httpo://hc.onion")}],
               default : {None, DefaultCollector}] :
        resp.default # None \/ \E n \in HelperNames : resp.helpers[n] # NoHelper}

PhasesInit ==
    /\ NoRequest
    /\ NoClientCall
    /\ NoInsert
    /\ NoClient
    /\ payload = [h \in Hashes |-> None]
    /\ descriptor = [h \in Hashes |-> None]
    /\ call = NoCall
    /\ netTestLoaders \in PhaseDecks
    /\ bouncer = BouncerAddress
    /\ no_collector \in BOOLEAN
    /\ DeckIdle

PhasesNext ==
    \/ lookupCollector
    \/ lookupCollectorAgain
    \/ lookupTestHelpers
    \/ /\ dpc = "lookup"
       /\ \E provided \in ListsUpTo(Assignments, 1) : LookupAnswered(provided)
    \/ LookupFails
    \/ /\ dpc = "helpers"
       /\ \E resp \in HelperResponses : HelpersAnswered(resp)
    \/ HelpersFail

\* the two lookup phases, invoked one after another on one deck
SpecPhases == PhasesInit /\ [][PhasesNext]_vars

(* ------------------------ OONIBClient.__init__ ------------------------- *)

OnionHost == "abcdefghij234567.onion"

\* addresses a client is constructed with
Addresses ==
    { "https://example.org/x",
      "https://example.org",
      "http://example.org/x?q=1",
      "httpo://abcdefghij234567.onion",
      "http://abcdefghij234567.onion",
      "https://abcdefghij234567.onion",
      "ftp://example.org",
      "example.org" }

\* ooni.utils.onion.is_onion_address: the address has the onion pattern
is_onion_address(a) ==
    a \in { "httpo://abcdefghij234567.onion",
            "http://abcdefghij234567.onion",
            "https://abcdefghij234567.onion" }

\* str.startswith, on the addresses above
startswith(a, prefix) ==
    CASE prefix = "https://" ->
             a \in { "https://example.org/x", "https://example.org",
                     "https://abcdefghij234567.onion" }
      [] prefix = "http://" ->
             a \in { "http://example.org/x?q=1", "http://abcdefghij234567.onion" }
      [] OTHER -> FALSE

\* urlparse(a): the scheme and the netloc
urlparse(a) ==
    CASE a = "https://example.org/x" -> [scheme |-> "https", netloc |-> "example.org"]
      [] a = "https://example.org" -> [scheme |-> "https", netloc |-> "example.org"]
      [] a = "http://example.org/x?q=1" -> [scheme |-> "http", netloc |-> "example.org"]
      [] a = "httpo://abcdefghij234567.onion" -> [scheme |-> "httpo", netloc |-> OnionHost]
      [] a = "http://abcdefghij234567.onion" -> [scheme |-> "http", netloc |-> OnionHost]
      [] a = "https://abcdefghij234567.onion" -> [scheme |-> "https", netloc |-> OnionHost]
      [] a = "ftp://example.org" -> [scheme |-> "ftp", netloc |-> "example.org"]
      [] a = "example.org" -> [scheme |-> "", netloc |-> ""]

\* "%s://%s" % (scheme, netloc)
scheme_netloc(scheme, netloc) ==
    CASE scheme = "http" /\ netloc = "example.org" -> "http://example.org"
      [] scheme = "https" /\ netloc = "example.org" -> "https://example.org"
      [] scheme = "http" /\ netloc = OnionHost -> "http://abcdefghij234567.onion"
      [] scheme = "https" /\ netloc = OnionHost -> "https://abcdefghij234567.onion"
      [] scheme = "httpo" /\ netloc = OnionHost -> "httpo://abcdefghij234567.onion"
      [] scheme = "http" /\ netloc = "" -> "http://"
      [] scheme = "https" /\ netloc = "" -> "https://"

\* _guessBackendType: the type, or the exception raised
guessBackendType(a) ==
    IF a = None
      THEN "InvalidAddress"
      ELSE IF is_onion_address(a)
        THEN "onion"
        ELSE IF startswith(a, "https://")
          THEN "https"
          ELSE IF startswith(a, "http://") THEN "http" ELSE "InvalidAddress"

\* the scheme _setupBaseAddress gives an onion address
onion_schemeKeepsHttpo(scheme) ==
    IF scheme = "http" THEN "http" ELSE scheme
onion_scheme(scheme) ==
    IF scheme \in {"http", "httpo"} THEN "http" ELSE scheme

\* _setupBaseAddress: the new base address, or the exception raised;
\* urlparse(None) raises AttributeError
setupBaseAddress(type, a) ==
    IF a = None
      THEN [base |-> a, err |-> "AttributeError"]
      ELSE CASE type = "onion" ->
                  IF ~is_onion_address(a)
                    THEN [base |-> a, err |-> "InvalidAddress"]
                    ELSE [base |-> scheme_netloc(onion_scheme(urlparse(a).scheme),
                                                 urlparse(a).netloc),
                          err |-> None]
             [] type = "http" ->
                  [base |-> scheme_netloc("http", urlparse(a).netloc), err |-> None]
             [] type \in {"https", "cloudfront"} ->
                  [base |-> scheme_netloc("https", urlparse(a).netloc), err |-> None]
             [] OTHER -> [base |-> a, err |-> None]

\* OONIBClient(address, settings): the attributes as __init__ leaves them
\* and "yes", or the exception that left __init__
OONIBClient_init ==
    /\ constructed = "no"
    /\ LET a == IF settings.address # None THEN settings.address ELSE address
           guess == IF settings.type = None THEN guessBackendType(a)
                                            ELSE settings.type
           normalised == setupBaseAddress(guess, a)
       IN CASE guess = "InvalidAddress" ->
                  /\ backend_type' = None
                  /\ base_address' = a
                  /\ constructed' = "InvalidAddress"
            [] guess = "cloudfront" /\ settings.front = None ->
                  /\ backend_type' = guess
                  /\ base_address' = a
                  /\ constructed' = "KeyError"
            [] OTHER ->
                  /\ backend_type' = guess
                  /\ base_address' = normalised.base
                  /\ constructed' = IF normalised.err = None THEN "yes"
                                                            ELSE normalised.err
    /\ UNCHANGED <<address, settings, reqVars, cacheVars, deckVars, helperVars,
                   clientVars, insertVars>>

\* the settings a client is constructed with: no type or one of the four,
\* with or without an address of their own and a front
Settings ==
    [type : {None, "onion", "http", "https", "cloudfront"},
     address : {None, "https://example.org/x"},
     front : {None, "front.example.org"}]

\* the arguments of the constructor: any address or none, with any settings
AddrInit ==
    /\ NoRequest
    /\ NoClientCall
    /\ NoInsert
    /\ NoDeck
    /\ payload = [h \in Hashes |-> None]
    /\ descriptor = [h \in Hashes |-> None]
    /\ call = NoCall
    /\ address \in Addresses \cup {None}
    /\ settings \in Settings
    /\ backend_type = None
    /\ base_address = None
    /\ constructed = "no"

AddrNext == OONIBClient_init

\* the construction of a client from an address and settings
SpecAddr == AddrInit /\ [][AddrNext]_vars

(* ----------------------------- Deck.insert ----------------------------- *)

\* how many tests a deck takes
MaxInserted == 2

\* _twisted_version < _twisted_14_0_2_version: versions compare by major,
\* then minor, then micro
version_less(a, b) ==
    \/ a[1] < b[1]
    \/ a[1] = b[1] /\ a[2] < b[2]
    \/ a[1] = b[1] /\ a[2] = b[2] /\ a[3] < b[3]

\* config.advanced.insecure_collector is not True: only the value True
\* itself passes, no other value that counts as true
is_not_TrueByTruth(flag) == flag \in {"False", "None"}
is_not_True(flag) == flag # "True"

\* what checkOptions() did: the exception it raised, or None, and the
\* requiresTor attribute of the test it checked
Checked(raised, tor) == [raised |-> raised, requiresTor |-> tor]

\* the try block of insert: MissingTestHelper leaves insert when the deck
\* has no bouncer, and makes the deck require Tor when it has one
check_options(checked, tor, b) ==
    IF checked.raised = "MissingTestHelper"
      THEN IF unset(b) THEN [err |-> "MissingTestHelper", requiresTor |-> tor]
                       ELSE [err |-> None, requiresTor |-> TRUE]
      ELSE [err |-> None, requiresTor |-> tor \/ checked.requiresTor]

\* the collector checks of insert: the exception raised, or None
collector_policy(collector, flag, version) ==
    IF ~unset(collector) /\ startswith(collector, "https://")
      THEN IF version_less(version, twisted_14_0_2_version)
             THEN "HTTPCollectorUnsupported" ELSE None
      ELSE IF ~unset(collector) /\ startswith(collector, "http://")
             THEN IF is_not_True(flag) THEN "InsecureCollector" ELSE None
             ELSE None

\* Deck.insert(net_test_loader), with checkOptions() doing what checked says
insert(net_test_loader, checked) ==
    LET c == check_options(checked, requiresTor, bouncer)
        policy == collector_policy(net_test_loader.collector,
                                   insecure_collector, twisted_version)
        outcome == IF c.err # None THEN c.err
                   ELSE IF policy # None THEN policy ELSE "ok"
    IN /\ Len(netTestLoaders) < MaxInserted
       /\ requiresTor' = c.requiresTor
       /\ netTestLoaders' = IF outcome = "ok"
                              THEN Append(netTestLoaders, net_test_loader)
                              ELSE netTestLoaders
       /\ inserted' = [test |-> <<net_test_loader>>, checkOptions |-> <<checked>>,
                       outcome |-> outcome]
       /\ UNCHANGED <<bouncer, no_collector, dpc, entry, cur, derr, downloads,
                      lookups, required_nettests, provided_net_tests, selected,
                      failedInput, insecure_collector, twisted_version>>
       /\ UNCHANGED <<reqVars, cacheVars, helperVars, clientVars, addrVars>>

\* the collectors of the tests handed to insert: none, plain http, https,
\* and an onion collector
InsertCollectors ==
    {None, "http://example.org/x?q=1", "https://example.org",
     "httpo://abcdefghij234567.onion"}

\* the calls of insert: a test whose options are met, requiring Tor or
\* not, or a test lacking a helper, for which checkOptions raises
InsertCalls ==
    {[test |-> Loader("x", "1", c, <<>>, <<>>), checked |-> Checked(None, tor)] :
        c \in InsertCollectors, tor \in BOOLEAN}
    \cup
    {[test |-> Loader("x", "1", c, <<>>, << <<"backend", "h1">> >>),
      checked |-> Checked("MissingTestHelper", FALSE)] :
        c \in InsertCollectors}

\* values of config.advanced.insecure_collector, as Python prints them
InsecureCollectorFlags == {"True", "False", "1"}

\* versions of twisted around 14.0.2
TwistedVersions == {<<13, 2, 0>>, <<14, 0, 1>>, <<14, 0, 2>>, <<15, 0, 0>>}

\* a new Deck, with or without a bouncer, under each configuration
InsertInit ==
    /\ NoRequest
    /\ NoClientCall
    /\ NoClient
    /\ payload = [h \in Hashes |-> None]
    /\ descriptor = [h \in Hashes |-> None]
    /\ call = NoCall
    /\ netTestLoaders = <<>>
    /\ bouncer \in {"", BouncerAddress}
    /\ no_collector = FALSE
    /\ DeckIdle
    /\ requiresTor = FALSE
    /\ insecure_collector \in InsecureCollectorFlags
    /\ twisted_version \in TwistedVersions
    /\ inserted = [test |-> <<>>, checkOptions |-> <<>>, outcome |-> None]

InsertNext == \E i \in InsertCalls : insert(i.test, i.checked)

\* tests handed to Deck.insert one after another, up to MaxInserted accepted
SpecInsert == InsertInit /\ [][InsertNext]_vars

(* ----------------------------- role clients ---------------------------- *)

\* the hashes inputs and decks are fetched by: an input's files are under
\* config.inputs_directory and a deck's under config.decks_directory, so
\* payload[Ha] and descriptor[Ha] are the cache files of input Ha, and
\* payload[Hb] and descriptor[Hb] those of deck Hb
InputHashes == {Ha}
DeckHashes == {Hb}

\* the object a convenience method answers with: InputFile(id) or Deck(id)
Resource(kind, id) == JsonValue(kind, {}, {}, id, None)

\* Python's True and False as returned values
Bool(b) == JsonValue("bool", {}, {}, IF b THEN "True" ELSE "False", None)

\* `if input_file.descriptorCached:` / `if input_file.fileCached:` : the
\* branch that answers from the cache is taken when the predicate is True
cache_hitNever(cached) == FALSE
cache_hit(cached) == cached = "True"

\* InputFile.save: json.dump of the six descriptor fields into <id>.desc
save(files, id) == [files EXCEPT ![id] = SavedDescriptor]

\* the errback of getInput, downloadInput, getDeck and downloadDeck: it logs
\* the failure and returns nothing, so the Deferred goes on with None
errPropagates(failure) == failure
err(failure) == Returned(NoneValue)

\* getInput / getDeck after queryBackend fired: cb loads the descriptor,
\* saves it and returns the resource; a failed query and an exception of cb
\* go to err
descriptor_fetched(kind, id, result) ==
    IF result.ok
      THEN IF load(result.value) = "ok"
             THEN [returned |-> Returned(Resource(kind, id)), saved |-> TRUE]
             ELSE [returned |-> err(Raised(load(result.value), None)),
                   saved |-> FALSE]
      ELSE [returned |-> err(result), saved |-> FALSE]

\* CollectorClient.downloadDeck once its download ended: as downloadInput
downloadDeck(downloaded, files, id) ==
    IF downloaded /\ verify(files, id) = "ok" THEN "deck" ELSE "None"

\* Python's  not x  for a decoded JSON value
falsy(v) ==
    CASE v.kind = "NoneType" -> TRUE
      [] v.kind = "dict" -> v.keys = {}
      [] v.kind = "list" -> v.items = {}
      [] v.kind = "unicode" -> v.text = ""
      [] v.kind = "int" -> v.text = "0"
      [] OTHER -> FALSE

\* BouncerClient.lookupTestHelpers after queryBackend fired: any exception
\* and a falsy answer raise CouldNotFindTestHelper
lookupTestHelpersAcceptsEmpty(result) ==
    IF ~result.ok THEN Raised("CouldNotFindTestHelper", None) ELSE result
BouncerClient_lookupTestHelpers(result) ==
    IF ~result.ok
      THEN Raised("CouldNotFindTestHelper", None)
      ELSE IF falsy(result.value)
             THEN Raised("CouldNotFindTestHelper", None)
             ELSE Returned(result.value)

\* error keys that are JSON numbers, by their decimal text: get_error maps
\* them to twisted.web.error.Error with that text as its status
NumericErrorKeys == {"404", "500"}

\* failure.trap(Error) lets the failure through: it is a
\* twisted.web.error.Error
is_web_error(failure) ==
    failure.exc = "BackendReportedError" /\ failure.code \in NumericErrorKeys

\* CollectorClient.isReachable after queryBackend fired: cb answers False to
\* any success, err answers whether the status of an Error is '404' and lets
\* every other failure through
isReachableOnAnyError(result) ==
    IF result.ok THEN Returned(Bool(FALSE)) ELSE Returned(Bool(TRUE))
isReachable(result) ==
    IF result.ok
      THEN Returned(Bool(FALSE))
      ELSE IF is_web_error(result)
             THEN Returned(Bool(result.code = "404"))
             ELSE result

\* a bouncer's answer to POST /bouncer/test-helpers, as a body
HelpersBody ==
    "{\"h1\":{\"address\":\"10.0.0.1\",\"collector\":\"httpo://c1.onion\"}}"

\* bodies the backend of a role client answers with
ClientBodies ==
    { "", "{}", "not json", "[]", "\"ok\"",
      SavedDescriptor, "{\"name\":\"n\"}",
      "{\"error\":404}", "{\"error\":500}", "{\"error\":\"invalid-request\"}",
      HelpersBody }

ClientResponses ==
    [status : Statuses, body : ClientBodies, content_length : {TRUE}]

\* what a method call and the turns of the reactor that follow it leave
\* alone
notClientVars == <<call, deckVars, helperVars, addrVars, insertVars>>

\* the method returns without a call of _request: no request is in flight
no_request ==
    /\ rpc' = "idle"
    /\ op' = None
    /\ retries' = 0
    /\ attempts' = 0
    /\ pending' = {}
    /\ requestsMade' = 0
    /\ response' = NoResponse
    /\ data' = ""
    /\ finishedCalls' = 0
    /\ finishedResult' = Unresolved
    /\ lastFailure' = None
    /\ download_path' = None

\* queryBackend / download as a method calls them: _request with the
\* default retries, attempts = 0, a fresh Deferred, the first perform_request
new_request(o) ==
    /\ rpc' = "requesting"
    /\ op' = o
    /\ retries' = DefaultRetries
    /\ attempts' = 0
    /\ pending' = {1}
    /\ requestsMade' = 1
    /\ response' = NoResponse
    /\ data' = ""
    /\ finishedCalls' = 0
    /\ finishedResult' = Unresolved
    /\ lastFailure' = None
    /\ download_path' = None

\* a method is called on a client with no call outstanding
begin(m, id) ==
    /\ cpc \in {"idle", "done"}
    /\ method' = m
    /\ target' = id
    /\ netResult' = Unresolved
    /\ UNCHANGED <<payload, descriptor, notClientVars>>

\* getInput / getDeck up to the return: the cached resource at once, or the
\* Deferred of a query; an exception of descriptorCached leaves the method
get_descriptor(m, kind, id) ==
    /\ begin(m, id)
    /\ LET cached == descriptorCached(descriptor, id) IN
         CASE cached \notin {"True", "False"} ->
                  /\ cpc' = "done"
                  /\ returned' = Raised(cached, None)
                  /\ netRequests' = 0
                  /\ no_request
           [] cached \in {"True", "False"} /\ cache_hit(cached) ->
                  /\ cpc' = "done"
                  /\ returned' = Returned(Resource(kind, id))
                  /\ netRequests' = 0
                  /\ no_request
           [] OTHER ->
                  /\ cpc' = "querying"
                  /\ returned' = Unresolved
                  /\ netRequests' = 1
                  /\ new_request("query")

\* downloadInput / downloadDeck up to the return: the cached resource at
\* once, or the Deferred of a download
download_file(m, kind, id) ==
    /\ begin(m, id)
    /\ IF cache_hit(fileCached(payload, id))
         THEN /\ cpc' = "done"
              /\ returned' = Returned(Resource(kind, id))
              /\ netRequests' = 0
              /\ no_request
         ELSE /\ cpc' = "downloading"
              /\ returned' = Unresolved
              /\ netRequests' = 1
              /\ new_request("download")

\* CollectorClient.getInput(input_hash)
getInput(id) == get_descriptor("getInput", "InputFile", id)

\* CollectorClient.getDeck(deck_hash)
getDeck(id) == get_descriptor("getDeck", "Deck", id)

\* CollectorClient.downloadInput(input_hash)
CollectorClient_downloadInput(id) == download_file("downloadInput", "InputFile", id)

\* CollectorClient.downloadDeck(deck_hash)
CollectorClient_downloadDeck(id) == download_file("downloadDeck", "Deck", id)

\* a method that queries the backend whatever the cache holds
query_method(m) ==
    /\ begin(m, None)
    /\ cpc' = "querying"
    /\ returned' = Unresolved
    /\ netRequests' = 1
    /\ new_request("query")

\* BouncerClient.lookupTestHelpers(test_helper_names)
call_lookupTestHelpers == query_method("lookupTestHelpers")

\* CollectorClient.isReachable()
call_isReachable == query_method("isReachable")

\* the kind of resource a convenience method answers with
kind_of(m) == IF m \in {"getInput", "downloadInput"} THEN "InputFile" ELSE "Deck"

\* what downloadInput / downloadDeck answer once the download ended
downloaded_resource(m, downloaded, files, id) ==
    LET r == IF m = "downloadInput" THEN downloadInput(downloaded, files, id)
                                     ELSE downloadDeck(downloaded, files, id)
    IN IF r = "None" THEN Returned(NoneValue)
                     ELSE Returned(Resource(kind_of(m), id))

\* finished fired with result: the callbacks the method added to it run in
\* the same turn.  A download that completed has written download_path,
\* the payload file of the target.
method_callbacks(result) ==
    /\ cpc' = "done"
    /\ netResult' = result
    /\ CASE method \in {"getInput", "getDeck"} ->
              LET f == descriptor_fetched(kind_of(method), target, result) IN
              /\ returned' = f.returned
              /\ descriptor' = IF f.saved THEN save(descriptor, target)
                                           ELSE descriptor
              /\ UNCHANGED payload
         [] method = "lookupTestHelpers" ->
              /\ returned' = BouncerClient_lookupTestHelpers(result)
              /\ UNCHANGED <<payload, descriptor>>
         [] method = "isReachable" ->
              /\ returned' = isReachable(result)
              /\ UNCHANGED <<payload, descriptor>>
         [] OTHER ->
              /\ payload' = IF result.ok
                              THEN [payload EXCEPT ![target] = download_path']
                              ELSE payload
              /\ returned' = downloaded_resource(method, result.ok, payload', target)
              /\ UNCHANGED descriptor

\* the end of a turn of the reactor in which the request of the method went
\* on: the method's callbacks run when finished fired in it, else the
\* method's Deferred stays as it is
end_of_turn ==
    /\ IF rpc' = "done"
         THEN method_callbacks(finishedResult')
         ELSE UNCHANGED <<cpc, netResult, returned, payload, descriptor>>
    /\ UNCHANGED <<method, target, netRequests, notClientVars>>

\* agent.request of the method's request fired with a response: callback
CollectorClient_callback(resp, raised) ==
    /\ cpc \in {"querying", "downloading"}
    /\ on_response(resp, raised)
    /\ end_of_turn

\* agent.request of the method's request fired with a failure: errback
CollectorClient_errback(failure) ==
    /\ cpc \in {"querying", "downloading"}
    /\ on_failure(failure)
    /\ end_of_turn

\* the body of the response arrives at the receiver
CollectorClient_dataReceived ==
    /\ cpc \in {"querying", "downloading"}
    /\ on_data
    /\ end_of_turn

\* the connection closed: the receiver fires finished
CollectorClient_connectionLost ==
    /\ cpc \in {"querying", "downloading"}
    /\ on_close
    /\ end_of_turn

\* the responses a download is answered with
DownloadResponses ==
    [status : {200}, body : Contents, content_length : {TRUE}]

\* the cache a client starts with: each payload absent, intact or holding
\* other content; each descriptor absent, as saved, or unreadable
ClientInit ==
    /\ NoRequest
    /\ NoClientCall
    /\ NoInsert
    /\ NoClient
    /\ NoDeck
    /\ payload \in [Hashes -> {None, "a", "b"}]
    /\ descriptor \in [Hashes -> {None, SavedDescriptor, "not json", "[]"}]
    /\ call = NoCall

ClientNext ==
    \/ \E id \in InputHashes : getInput(id)
    \/ \E id \in DeckHashes : getDeck(id)
    \/ \E id \in InputHashes : CollectorClient_downloadInput(id)
    \/ \E id \in DeckHashes : CollectorClient_downloadDeck(id)
    \/ call_lookupTestHelpers
    \/ call_isReachable
    \/ /\ cpc = "querying"
       /\ \E resp \in ClientResponses, raised \in {None} \cup ReceiverErrors :
             CollectorClient_callback(resp, raised)
    \/ /\ cpc = "downloading"
       /\ \E resp \in DownloadResponses, raised \in {None} \cup ReceiverErrors :
             CollectorClient_callback(resp, raised)
    \/ \E failure \in TransportErrors : CollectorClient_errback(failure)
    \/ CollectorClient_dataReceived
    \/ CollectorClient_connectionLost

\* method calls on a role client, one after another, over one cache
SpecClient == ClientInit /\ [][ClientNext]_vars

(* ===================== claims about _request ========================== *)

\* the invocation ended without any transport attempt producing a response
AllAttemptsFailed == rpc = "done" /\ ~responded

\* the invocation ended with what the receiver made of the body of a
\* response, not with a failure that errback gave up on
BodyProcessed ==
    /\ rpc = "done"
    /\ responded
    /\ finishedResult.exc \notin TransportErrors \cup ReceiverErrors

\* C1 (as amended): when every transport attempt fails, exactly retries + 1
\* agent.request calls are made (the first attempt and one per retry), and
\* finished fails with the failure of the last attempt itself, unwrapped.
C1_RetryBound ==
    AllAttemptsFailed =>
        /\ requestsMade = retries + 1
        /\ lastFailure \in TransportErrors
        /\ finishedResult = Raised(lastFailure, None)

\* C1 as stated: with a retry limit of N >= 1 and every attempt failing,
\* exactly N transport attempts are made.
C1_Original ==
    (AllAttemptsFailed /\ retries >= 1) => requestsMade = retries

C1_Witness ==
    /\ AllAttemptsFailed
    /\ retries = 3
    /\ requestsMade = 4
    /\ finishedResult.exc = "TimeoutError"

\* C2: at most one transport attempt is outstanding at any time, an attempt
\* after the first starts only in the step in which the previous one, the
\* only one outstanding, ends in a failure handed to errback (a failure of
\* the transport, or an exception raised while its response was handed to
\* the receiver), and finished is resolved exactly once: not before the
\* invocation is done, once when it is.
C2_SequentialResolveOnce ==
    /\ [](/\ Cardinality(pending) <= 1
          /\ finishedCalls <= 1
          /\ (rpc = "done") <=> (finishedCalls = 1)
          /\ (rpc = "done") <=> (finishedResult # Unresolved)
          /\ (pending # {}) <=> (rpc = "requesting"))
    /\ [][requestsMade' # requestsMade =>
            /\ requestsMade' = requestsMade + 1
            /\ pending' = {requestsMade'}
            /\ requestsMade > 0 =>
                  /\ pending = {requestsMade}
                  /\ lastFailure' \in TransportErrors \cup ReceiverErrors
                  /\ rpc = "requesting"
                  /\ finishedCalls' = 0]_vars

C2_Witness ==
    /\ rpc = "done"
    /\ requestsMade = 3
    /\ responded
    /\ finishedCalls = 1
    /\ finishedResult.ok

\* what C3 says queryBackend answers for a response body
C3_ClaimedOutcome(s) ==
    IF s = ""
      THEN Returned(NoneValue)
      ELSE IF json_loads(s) = Invalid
             THEN Raised("MalformedResponse", None)
             ELSE IF json_loads(s).kind = "dict" /\ "error" \in json_loads(s).keys
                    THEN Raised("BackendReportedError", json_loads(s).errorValue)
                    ELSE Returned(json_loads(s))

\* C3: the outcome of queryBackend is decided by the response body alone:
\* empty gives success with no value, undecodable gives the malformed-response
\* error, an object with an error key gives the mapped backend error, and
\* every other decoded value is returned as the success result.
C3_OutcomeFromBody ==
    (BodyProcessed /\ op = "query") =>
        finishedResult = C3_ClaimedOutcome(response.body)

\* C4: once a transport attempt of queryBackend has produced a response no
\* further attempt is made, in that step or later, and a body that does not
\* decode or that carries an error key makes the invocation fail with that
\* error.
C4_NoRetryAfterResponse ==
    /\ [][(responded' /\ op' = "query") =>
             (requestsMade' = requestsMade /\ pending' = {})]_vars
    /\ [](BodyProcessed /\ op = "query" =>
            /\ json_loads(response.body) = Invalid /\ response.body # "" =>
                  finishedResult = Raised("MalformedResponse", None)
            /\ (json_loads(response.body).kind = "dict"
                   /\ "error" \in json_loads(response.body).keys) =>
                  finishedResult =
                      Raised("BackendReportedError",
                             json_loads(response.body).errorValue))

(* ===================== claims about the cache ========================= *)

\* C9: the payload-cached predicate of id H is true exactly when the payload
\* file exists and the SHA-256 of its current content is H; it is false for
\* an absent file and for stored content with another hash.
C9_FileCachedIffVerified ==
    call.fn = "fileCached" =>
        /\ call.result \in {"True", "False"}
        /\ (call.result = "True") <=>
               (\E c \in Contents : payload[call.id] = c /\ sha256(c) = call.id)

C9_Witness ==
    /\ call.fn = "fileCached"
    /\ call.id = Ha
    /\ payload[Ha] = "b"
    /\ call.result = "False"

\* the descriptor file of id exists and parses into a descriptor
C10_Parses(id) ==
    /\ descriptor[id] # None
    /\ json_loads(descriptor[id]).kind = "dict"
    /\ DescriptorFields \subseteq json_loads(descriptor[id]).keys

\* C10: the descriptor-cached predicate returns true when the descriptor
\* file exists and parses into a descriptor, and returns false (neither true
\* nor an error) otherwise.
C10_DescriptorCachedIffParses ==
    call.fn = "descriptorCached" =>
        /\ call.result \in {"True", "False"}
        /\ (call.result = "True") <=> C10_Parses(call.id)

(* ====================== claims about the Deck ========================= *)

\* an answer of the bouncer has been handled by lookupCollector
Answered == Len(selected) > 0

\* the matching rule as the specification states it: equal name, equal
\* version, and each set of input hashes included in the other
C6_Matches(assignment, loader) ==
    /\ assignment.name = loader.testName
    /\ assignment.version = loader.testVersion
    /\ \A h \in ToSet(assignment.input_hashes) :
          \E i \in DOMAIN loader.inputFiles : loader.inputFiles[i].hash = h
    /\ \A i \in DOMAIN loader.inputFiles :
          loader.inputFiles[i].hash \in ToSet(assignment.input_hashes)

\* no assignment of the answer matches test k
C5_NoMatch(k) ==
    \A j \in DOMAIN provided_net_tests :
        ~C6_Matches(provided_net_tests[j], netTestLoaders[k])

\* C5: when the answer holds no assignment matching a test, the lookup does
\* not fail, every test is still handled, and the unmatched test keeps its
\* collector and helper options as they were (unset).  Answers that lack a
\* helper address a matched test needs (KeyError) are left aside.
C5_UnmatchedLeftUnresolved ==
    (Answered /\ derr # "KeyError") =>
        \A k \in DOMAIN netTestLoaders :
            C5_NoMatch(k) =>
                /\ dpc = "done"
                /\ Len(selected) = Len(netTestLoaders)
                /\ netTestLoaders[k].collector \in {None, OwnCollector}
                /\ \A o \in Options :
                      /\ netTestLoaders[k].localOptions[o] = None
                      /\ netTestLoaders[k].testHelpers[o] = None

\* C6: the assignment lookupCollector applies to a test is one whose name
\* and version equal the test's and whose set of input hashes equals the
\* set of the test's input hashes (the first such in the answer); when none
\* is found, none matches.  A test handled to the end has its helper options
\* and, unless it had one, its collector from that assignment.
C6_ExactMatch ==
    \A k \in DOMAIN selected :
        LET t == netTestLoaders[k]
            idx == selected[k]
        IN /\ (idx = 0) <=> C5_NoMatch(k)
           /\ idx # 0 =>
                 /\ C6_Matches(provided_net_tests[idx], t)
                 /\ \A j \in 1..(idx - 1) : ~C6_Matches(provided_net_tests[j], t)
           /\ (idx # 0 /\ (k < Len(selected) \/ derr = None)) =>
                 /\ t.collector \in {OwnCollector, provided_net_tests[idx].collector}
                 /\ \A m \in DOMAIN t.missingTestHelpers :
                       t.localOptions[t.missingTestHelpers[m][1]] =
                           provided_net_tests[idx].test_helpers[t.missingTestHelpers[m][2]]

\* a test with inputs {Ha, Hb} passed over the assignment for {Ha} and the
\* one for {Ha, Hb, Hc} and took the collector of the one for <<Hb, Ha, Ha>>
C6_Witness ==
    /\ dpc = "done"
    /\ Len(netTestLoaders) = 1
    /\ Len(netTestLoaders[1].inputFiles) = 2
    /\ Len(provided_net_tests) = 2
    /\ provided_net_tests[1].name = "x"
    /\ provided_net_tests[1].version = "1"
    /\ provided_net_tests[1].input_hashes \in {<<Ha>>, <<Ha, Hb, Hc>>}
    /\ selected = <<2>>
    /\ netTestLoaders[1].collector = ProvidedCollector(<<Hb, Ha, Ha>>)

\* C7: when the download of an input fails or the downloaded payload does
\* not hash to the input's id, setup fails with UnableToLoadDeckInput.
C7_InputFailureIsUnableToLoad ==
    (entry = "setup" /\ failedInput # <<0, 0>>) =>
        (dpc = "failed" /\ derr = "UnableToLoadDeckInput")

\* input <<li, ii>> comes after input pos in the order setup visits them
C8_After(li, ii, pos) == li > pos[1] \/ (li = pos[1] /\ ii > pos[2])

\* input ii of test li has been materialised: its option slot holds the
\* cache path and the cached payload hashes to its id
C8_Materialised(li, ii) ==
    LET i == netTestLoaders[li].inputFiles[ii] IN
    /\ i.test_option = cached_file(i.hash)
    /\ payload[i.hash] # None
    /\ sha256(payload[i.hash]) = i.hash

\* setup aborts on an input that cannot be downloaded or verified: it ends
\* in failure, that input's slot and the slots of all later inputs stay
\* unset, no bouncer lookup is issued, and nothing happens afterwards
C8_Aborts ==
    /\ [](failedInput # <<0, 0>> =>
            /\ dpc = "failed"
            /\ derr # None
            /\ lookups = 0
            /\ \A li \in DOMAIN netTestLoaders :
                  \A ii \in DOMAIN netTestLoaders[li].inputFiles :
                      (<<li, ii>> = failedInput \/ C8_After(li, ii, failedInput)) =>
                          netTestLoaders[li].inputFiles[ii].test_option = <<>>)
    /\ [][failedInput # <<0, 0>> =>
            UNCHANGED <<downloads, lookups, netTestLoaders, payload>>]_vars

\* C8 (as amended): setup aborts on an input that cannot be downloaded or
\* verified, and a bouncer lookup is issued by setup only after every input
\* that has a url has been fetched and verified (inputs without a url are
\* not fetched by setup).
C8_AbortOnUnresolvedInput ==
    /\ C8_Aborts
    /\ []((entry = "setup" /\ lookups > 0) =>
            \A li \in DOMAIN netTestLoaders :
                \A ii \in DOMAIN netTestLoaders[li].inputFiles :
                    netTestLoaders[li].inputFiles[ii].url => C8_Materialised(li, ii))

\* C8 as stated: setup aborts on an input that cannot be downloaded or
\* verified, and a bouncer lookup is issued by setup only after every input
\* of every test has been fetched and verified.
C8_Original ==
    /\ C8_Aborts
    /\ []((entry = "setup" /\ lookups > 0) =>
            \A li \in DOMAIN netTestLoaders :
                \A ii \in DOMAIN netTestLoaders[li].inputFiles :
                    C8_Materialised(li, ii))

\* the first input of the first test failed while a bouncer is set and the
\* second test has a remote input that is not in the cache
C8_Witness ==
    /\ entry = "setup"
    /\ failedInput = <<1, 1>>
    /\ dpc = "failed"
    /\ bouncer = BouncerAddress
    /\ lookups = 0
    /\ Len(netTestLoaders) = 2
    /\ Len(netTestLoaders[2].inputFiles) = 2
    /\ netTestLoaders[2].inputFiles[2].url
    /\ netTestLoaders[2].inputFiles[2].hash = Hb
    /\ payload[Hb] = None
    /\ netTestLoaders[2].inputFiles[2].test_option = <<>>

(* ================== claims about the role clients ===================== *)

\* getInput, downloadInput, getDeck and downloadDeck
ConvenienceMethods == {"getInput", "downloadInput", "getDeck", "downloadDeck"}

\* the cache predicate method m consults for id, on the cache as it is
C11_Predicate(m, id) ==
    IF m \in {"getInput", "getDeck"}
      THEN descriptorCached(descriptor, id)
      ELSE fileCached(payload, id)

\* C11: a convenience method consults the cache before the network: when
\* its cache predicate is true it issues no request, leaves the cache as it
\* is and answers at once with the cached resource; it issues a request
\* (exactly one) only when the predicate is false; and nothing is requested
\* after the method has returned.
C11_CacheBeforeNetwork ==
    /\ [][(cpc \in {"idle", "done"} /\ method' \in ConvenienceMethods) =>
            LET cached == C11_Predicate(method', target') IN
            /\ netRequests' \in {0, 1}
            /\ (netRequests' = 1) <=> (cached = "False")
            /\ (netRequests' = 1) <=> (cpc' \in {"querying", "downloading"})
            /\ cached = "True" =>
                  /\ cpc' = "done"
                  /\ returned' = Returned(Resource(kind_of(method'), target'))
            /\ UNCHANGED <<payload, descriptor>>]_vars
    /\ [][cpc \notin {"idle", "done"} => netRequests' = netRequests]_vars

\* downloadDeck answered from the cache, without a request
C11_Witness ==
    /\ method = "downloadDeck"
    /\ target = Hb
    /\ cpc = "done"
    /\ netRequests = 0
    /\ netResult = Unresolved
    /\ payload[Hb] = "b"
    /\ returned = Returned(Resource("Deck", Hb))

(* ================= claims about the lookup phases ===================== *)

\* some test of the deck lacks a collector while collectors are not
\* suppressed, or lacks a test helper
C12_NeedsLookup ==
    \E k \in DOMAIN netTestLoaders :
        \/ netTestLoaders[k].collector \in {None, ""} /\ ~no_collector
        \/ netTestLoaders[k].missingTestHelpers # <<>>

\* record r carries test t: its name, its version, the hashes of its inputs
\* and the names of the helpers it lacks, each in order
C12_RecordOf(r, t) ==
    /\ r.name = t.testName
    /\ r.version = t.testVersion
    /\ Len(r.input_hashes) = Len(t.inputFiles)
    /\ \A i \in DOMAIN t.inputFiles : r.input_hashes[i] = t.inputFiles[i].hash
    /\ Len(r.test_helpers) = Len(t.missingTestHelpers)
    /\ \A j \in DOMAIN t.missingTestHelpers :
          r.test_helpers[j] = t.missingTestHelpers[j][2]

\* C12: lookupCollector issues no bouncer request when no test needs a
\* collector (each has its own, or collectors are suppressed) and no test
\* lacks a helper; otherwise it issues exactly one lookupTestCollector call,
\* which carries one record per test of the deck, in the deck's order.
C12_OneLookupWhenNeeded ==
    /\ [][(dpc = "idle" /\ entry' = "lookupCollector") =>
            IF C12_NeedsLookup
              THEN /\ lookups' = lookups + 1
                   /\ dpc' = "lookup"
                   /\ Len(required_nettests') = Len(netTestLoaders)
                   /\ \A k \in DOMAIN netTestLoaders :
                         C12_RecordOf(required_nettests'[k], netTestLoaders[k])
              ELSE /\ lookups' = lookups
                   /\ dpc' = "done"
                   /\ derr' = None]_vars
    /\ [][dpc # "idle" => lookups' = lookups]_vars
    /\ [](entry = "lookupCollector" => lookups \in {0, 1})

\* no request for a deck of two tests without collectors, without missing
\* helpers, when collectors are suppressed
C12_Witness ==
    /\ entry = "lookupCollector"
    /\ dpc = "done"
    /\ lookups = 0
    /\ no_collector
    /\ Len(netTestLoaders) = 2
    /\ netTestLoaders[1].collector = None
    /\ netTestLoaders[2].collector = OwnCollector
    /\ \A k \in DOMAIN netTestLoaders : netTestLoaders[k].missingTestHelpers = <<>>

\* C13: a lookup phase that ended without error has resolved what it could
\* ask the bouncer for, so invoking the same phase again on the same deck
\* issues no further bouncer request (neither lookupTestCollector nor
\* lookupTestHelpers).
C13_NoRequestOnReinvocation ==
    [][(dpc = "done" /\ derr = None /\ entry' = entry
            /\ reinvocations' = reinvocations + 1) =>
          (lookups' = lookups /\ helperLookups' = helperLookups)]_vars

\* an answer of the backend that holds nothing: no value, {} or []
C14_Empty(v) ==
    \/ v = NoneValue
    \/ v = JsonValue("dict", {}, {}, "", None)
    \/ v = JsonValue("list", {}, {}, "", None)

\* C14: BouncerClient.lookupTestHelpers succeeds, with the answer of the
\* query, only when the query succeeded with an answer that is not empty;
\* an empty answer of a successful query and every failure of the query end
\* in the same failure, CouldNotFindTestHelper.
C14_EmptyIsFailure ==
    (method = "lookupTestHelpers" /\ cpc = "done") =>
        /\ returned.ok <=> (netResult.ok /\ ~C14_Empty(netResult.value))
        /\ returned.ok => returned = netResult
        /\ ~returned.ok => returned = Raised("CouldNotFindTestHelper", None)

\* the bouncer answered 200 with {} and the lookup failed
C14_Witness ==
    /\ method = "lookupTestHelpers"
    /\ cpc = "done"
    /\ response.status = 200
    /\ response.body = "{}"
    /\ netResult.ok
    /\ returned = Raised("CouldNotFindTestHelper", None)

\* a Deck.lookupTestHelpers that asked the bouncer has ended without error
C15_Succeeded ==
    /\ entry = "lookupTestHelpers"
    /\ dpc = "done"
    /\ helpers_response # NoHelpersResponse

\* test k has, for each helper it lacked, the address the response gives
\* for that helper's name in its local option and in its helper map
C15_HelpersSet(k) ==
    \A j \in DOMAIN startLoaders[k].missingTestHelpers :
        LET option == startLoaders[k].missingTestHelpers[j][1]
            name == startLoaders[k].missingTestHelpers[j][2]
        IN /\ helpers_response.helpers[name] # NoHelper
           /\ netTestLoaders[k].localOptions[option] =
                  helpers_response.helpers[name].address
           /\ netTestLoaders[k].testHelpers[option] =
                  helpers_response.helpers[name].address

\* test k required no helpers and had no collector when the phase started
C15_LackedCollectorOnly(k) ==
    /\ startLoaders[k].missingTestHelpers = <<>>
    /\ startLoaders[k].collector \in {None, ""}

\* C15 (as amended): after a successful Deck.lookupTestHelpers every test
\* with missing helpers has, for each (option slot, helper name), its local
\* option and its helper map at that slot set to the address returned for
\* that name; and every test that required no helpers but lacked a collector
\* has its collector set to the response's default collector, unless
\* collectors are suppressed (no_collector), in which case its collector is
\* left unset.
C15_HelpersAndDefaultCollector ==
    C15_Succeeded =>
        \A k \in DOMAIN netTestLoaders :
            /\ C15_HelpersSet(k)
            /\ C15_LackedCollectorOnly(k) =>
                  IF no_collector
                    THEN netTestLoaders[k].collector = startLoaders[k].collector
                    ELSE /\ helpers_response.default = DefaultCollector
                         /\ netTestLoaders[k].collector = helpers_response.default

\* C15 as stated: ... and every test that required no helpers but lacked a
\* collector has its collector set to the response's default collector.
C15_Original ==
    C15_Succeeded =>
        \A k \in DOMAIN netTestLoaders :
            /\ C15_HelpersSet(k)
            /\ C15_LackedCollectorOnly(k) =>
                  netTestLoaders[k].collector = helpers_response.default

\* a test lacking two helpers took both addresses and a test lacking only
\* a collector took the default collector
C15_Witness ==
    /\ C15_Succeeded
    /\ ~no_collector
    /\ Len(netTestLoaders) = 2
    /\ Len(startLoaders[1].missingTestHelpers) = 2
    /\ netTestLoaders[1].localOptions["dns"] = "10.0.0.2"
    /\ netTestLoaders[1].testHelpers["backend"] = "10.0.0.2"
    /\ C15_LackedCollectorOnly(2)
    /\ netTestLoaders[2].collector = DefaultCollector

(* ============== claims about the client's construction ================ *)

\* the address __init__ works on: the one in settings, else the argument
C16_Address == IF settings.address # None THEN settings.address ELSE address

\* the addresses with the onion pattern
C16_OnionLooking ==
    { "httpo://abcdefghij234567.onion", "http://abcdefghij234567.onion",
      "https://abcdefghij234567.onion" }

\* the classification rule of the specification, address by address
C16_Rule(a) ==
    CASE a \in C16_OnionLooking -> "onion"
      [] a \in {"https://example.org/x", "https://example.org"} -> "https"
      [] a = "http://example.org/x?q=1" -> "http"
      [] OTHER -> "InvalidAddress"

\* C16: the type of a constructed client is the type override when one is
\* given; otherwise it is onion for an address with the onion pattern (even
\* one that starts with http:// or https://), https for one that starts
\* with https://, http for one that starts with http://, and construction
\* fails with InvalidAddress for any other address and for no address.
\* Type onion with an address that lacks the onion pattern fails with
\* InvalidAddress, and InvalidAddress is raised in no other case.
C16_Classification ==
    constructed # "no" =>
        /\ settings.type # None => backend_type = settings.type
        /\ settings.type = None =>
              IF C16_Rule(C16_Address) = "InvalidAddress"
                THEN constructed = "InvalidAddress" /\ backend_type = None
                ELSE constructed = "yes" /\ backend_type = C16_Rule(C16_Address)
        /\ (settings.type = "onion" /\ C16_Address \notin C16_OnionLooking) =>
              constructed = "InvalidAddress"
        /\ constructed = "InvalidAddress" =>
              \/ settings.type = None /\ C16_Rule(C16_Address) = "InvalidAddress"
              \/ settings.type = "onion" /\ C16_Address \notin C16_OnionLooking

\* the scheme and the host of an address written scheme://host...
C17_Scheme(a) ==
    CASE a \in {"https://example.org/x", "https://example.org",
                "https://abcdefghij234567.onion"} -> "https"
      [] a \in {"http://example.org/x?q=1", "http://abcdefghij234567.onion"} -> "http"
      [] a = "httpo://abcdefghij234567.onion" -> "httpo"
      [] a = "ftp://example.org" -> "ftp"
      [] OTHER -> ""
C17_Host(a) ==
    CASE a \in C16_OnionLooking -> "abcdefghij234567.onion"
      [] a = "example.org" -> ""
      [] OTHER -> "example.org"

\* the scheme of the stored address for the types other than onion
C17_TypeScheme == IF backend_type = "http" THEN "http" ELSE "https"

\* C17 (as amended): the stored base address is scheme://host only, the
\* path and the query being dropped; the scheme is http for type http and
\* https for the types https and cloudfront; for type onion it is http when
\* the address's scheme is http or httpo, and the address's own scheme
\* otherwise.  (An address without a scheme://host part, which only a type
\* override lets through, leaves the host empty.)
C17_Normalised ==
    constructed = "yes" =>
        base_address =
            scheme_netloc(IF backend_type = "onion"
                            THEN IF C17_Scheme(C16_Address) \in {"http", "httpo"}
                                   THEN "http"
                                   ELSE C17_Scheme(C16_Address)
                            ELSE C17_TypeScheme,
                          C17_Host(C16_Address))

\* C17 as stated: ... and for onion addresses the scheme is http unless the
\* address's scheme was already httpo.
C17_Original ==
    constructed = "yes" =>
        base_address =
            scheme_netloc(IF backend_type = "onion"
                            THEN IF C17_Scheme(C16_Address) = "httpo"
                                   THEN "httpo"
                                   ELSE "http"
                            ELSE C17_TypeScheme,
                          C17_Host(C16_Address))

\* an httpo onion address was stored with scheme http
C17_Witness ==
    /\ constructed = "yes"
    /\ backend_type = "onion"
    /\ C16_Address = "httpo://abcdefghij234567.onion"
    /\ base_address = "http://abcdefghij234567.onion"

(* ============= further claims about the role clients ================== *)

\* C18: isReachable reports true exactly when the backend answered the
\* probe of the invalid path with a 404 response; every other outcome is
\* reported as false or as an error.
C18_ReachableIff404 ==
    (method = "isReachable" /\ cpc = "done") =>
        (returned = Returned(Bool(TRUE)))
            <=> (response # NoResponse /\ response.status = 404)

\* a fetch or a verification of convenience method m failed: the request
\* failed, or the descriptor received does not load, or the payload written
\* does not hash to the id
C20_Failed ==
    /\ method \in ConvenienceMethods
    /\ cpc = "done"
    /\ netRequests = 1
    /\ \/ ~netResult.ok
       \/ /\ method \in {"getInput", "getDeck"}
          /\ \/ netResult.value.kind # "dict"
             \/ ~(DescriptorFields \subseteq netResult.value.keys)
       \/ /\ method \in {"downloadInput", "downloadDeck"}
          /\ \A c \in Contents : ~(payload[target] = c /\ sha256(c) = target)

\* C20: when the fetch or the verification in getInput, downloadInput,
\* getDeck or downloadDeck fails, the caller gets no failure (the Deferred
\* fires with None) and the cache predicate of the resource is false
\* afterwards, so that calling the method again issues a request again.
C20_FailureLeavesCacheUnpopulated ==
    /\ [](C20_Failed =>
            /\ returned = Returned(NoneValue)
            /\ C11_Predicate(method, target) = "False")
    /\ [][(C20_Failed /\ method' = method /\ target' = target
              /\ cpc' # "done") =>
            (netRequests' = 1 /\ cpc' \in {"querying", "downloading"})]_vars
    /\ []((method \in ConvenienceMethods /\ cpc = "done" /\ netRequests = 1
              /\ ~C20_Failed) =>
            /\ returned = Returned(Resource(kind_of(method), target))
            /\ C11_Predicate(method, target) = "True")

\* a download that completed with other bytes gave the caller None and
\* left a payload that is not cached
C20_Witness ==
    /\ method = "downloadInput"
    /\ cpc = "done"
    /\ netResult.ok
    /\ payload[Ha] = "b"
    /\ returned = Returned(NoneValue)
    /\ fileCached(payload, Ha) = "False"

(* ================ a further claim about _request ====================== *)

\* C19: once queryBackend or download has been invoked, and provided every
\* transport attempt fires and every body is delivered to its end, the
\* Deferred it returned is eventually resolved, with a result or a failure:
\* the retries come to an end.
C19_RunsToCompletion ==
    (rpc # "idle") ~> (rpc = "done" /\ finishedCalls = 1
                          /\ finishedResult # Unresolved)

\* a download ended with a file after every retry but the last had failed
C19_Witness ==
    /\ rpc = "done"
    /\ op = "download"
    /\ attempts = DefaultRetries
    /\ requestsMade = DefaultRetries + 1
    /\ lastFailure \in TransportErrors
    /\ responded
    /\ finishedCalls = 1
    /\ finishedResult.ok

(* ===================== claims about Deck.insert ======================= *)

\* the collectors that start with http:// and with https://
C21_Http == {"http://example.org/x?q=1"}
C21_Https == {"https://example.org"}

\* the versions of twisted below 14.0.2
C21_Below == {<<13, 2, 0>>, <<14, 0, 1>>}

\* the option check let the test through: checkOptions did not raise
\* MissingTestHelper on a deck without a bouncer
C21_OptionsPassed(checked) ==
    ~(checked.raised = "MissingTestHelper" /\ bouncer = "")

\* insert added nothing / added test t at the end of the deck's list
C21_ListAfter(t) ==
    /\ inserted'.outcome # "ok" => netTestLoaders' = netTestLoaders
    /\ inserted'.outcome = "ok" =>
          /\ Len(netTestLoaders') = Len(netTestLoaders) + 1
          /\ netTestLoaders'[Len(netTestLoaders')] = t
          /\ SubSeq(netTestLoaders', 1, Len(netTestLoaders)) = netTestLoaders

\* C21 (as amended): Deck.insert enforces the collector policy on every test
\* that passed its option check: a test whose collector starts with http://
\* is rejected with InsecureCollector unless the insecure-collector flag is
\* exactly True, and one whose collector starts with https:// is rejected
\* with HTTPCollectorUnsupported when twisted is older than 14.0.2; a test
\* whose option check raised MissingTestHelper on a deck without a bouncer is
\* rejected with MissingTestHelper whatever its collector; every other test
\* is accepted.  A rejected test is not added to the deck's list and an
\* accepted one becomes its last element.
C21_CollectorPolicy ==
    [][LET t == inserted'.test[1]
           checked == inserted'.checkOptions[1]
           out == inserted'.outcome
       IN /\ ~C21_OptionsPassed(checked) => out = "MissingTestHelper"
          /\ C21_OptionsPassed(checked) =>
               /\ (t.collector \in C21_Http /\ insecure_collector # "True")
                     => out = "InsecureCollector"
               /\ (t.collector \in C21_Https /\ twisted_version \in C21_Below)
                     => out = "HTTPCollectorUnsupported"
               /\ (t.collector \in C21_Http /\ insecure_collector = "True")
                     => out = "ok"
               /\ (t.collector \in C21_Https /\ twisted_version \notin C21_Below)
                     => out = "ok"
               /\ t.collector \notin C21_Http \cup C21_Https => out = "ok"
          /\ C21_ListAfter(t)]_vars

\* C21 as stated: every test with an http:// collector is rejected with
\* InsecureCollector unless the flag is exactly True, every test with an
\* https:// collector with HTTPCollectorUnsupported when twisted is too old
C21_Original ==
    [][LET t == inserted'.test[1]
           out == inserted'.outcome
       IN /\ (t.collector \in C21_Http /\ insecure_collector # "True")
                => out = "InsecureCollector"
          /\ (t.collector \in C21_Https /\ twisted_version \in C21_Below)
                => out = "HTTPCollectorUnsupported"
          /\ C21_ListAfter(t)]_vars

\* a test with an http:// collector was rejected under a flag that counts
\* as true without being True, on a deck that already holds a test
C21_Witness ==
    /\ inserted.outcome = "InsecureCollector"
    /\ insecure_collector = "1"
    /\ inserted.checkOptions[1].raised = None
    /\ Len(netTestLoaders) = 1

(* ============== claims about collectors across the phases ============= *)

\* test k had its collector set when the latest phase started
C22_HadCollector(k) == startLoaders[k].collector \notin {None, ""}

\* C22: neither lookup phase overwrites an existing collector: from the
\* moment lookupCollector or lookupTestHelpers starts until it has ended,
\* with or without error, every test whose collector was set at the start
\* has that same collector, whatever the bouncer answered.
C22_CollectorKept ==
    \A k \in DOMAIN startLoaders :
        C22_HadCollector(k) =>
            netTestLoaders[k].collector = startLoaders[k].collector

\* both phases ran on one deck and both got an answer that offers a
\* collector to every test: the first test still has its own collector and
\* the helper the second phase gave it, the second test the collector the
\* first phase gave it
C22_Witness ==
    /\ dpc = "done"
    /\ entry = "lookupTestHelpers"
    /\ lookups = 1
    /\ helperLookups = 1
    /\ Len(netTestLoaders) = 2
    /\ provided_net_tests # <<>>
    /\ selected = <<1, 1>>
    /\ helpers_response.default = DefaultCollector
    /\ helpers_response.helpers["h1"] = Helper("10.0.0.2", "httpo://hc.onion")
    /\ netTestLoaders[1].collector = OwnCollector
    /\ netTestLoaders[1].localOptions["backend"] = "10.0.0.2"
    /\ netTestLoaders[2].collector = provided_net_tests[1].collector
    /\ C22_HadCollector(1)
    /\ C22_HadCollector(2)

\* C23: with no_collector set, no lookup phase assigns a collector: every
\* test that had no collector when lookupCollector or lookupTestHelpers
\* started still has none while the phase runs and after it has ended, even
\* when the bouncer was asked because a helper was missing.
C23_NoCollectorWhenSuppressed ==
    no_collector =>
        \A k \in DOMAIN startLoaders :
            startLoaders[k].collector \in {None, ""} =>
                netTestLoaders[k].collector \in {None, ""}

====
